---- MODULE Spec2Model ----
(***************************************************************************)
(* Model of the workflow-enforcement engine of agent-startup:              *)
(*   scripts/workflow_state_machine.py  (WorkflowMachine, quality gate,    *)
(*                                       schema validator, persistence)    *)
(*   hooks/startup_validator.py         (StartupValidator.run_all_checks)  *)
(*   scripts/workflow_main.py           (WorkflowOrchestrator.startup)     *)
(*                                                                         *)
(* Python values are tagged records: a str is VStr(...) = [t |-> "str", s |-> ...],    *)
(* a dict is [t |-> "dict", d |-> function from keys to values], and so    *)
(* on.  Each tag has its own payload field so that values of different     *)
(* Python types can be compared.                                           *)
(***************************************************************************)
EXTENDS Integers, Sequences, FiniteSets, TLC

(***************************************************************************)
(* Bounds of the model (not program constants).                            *)
(***************************************************************************)
MaxHistory == 9
MaxRetryCount == 4
MaxDetours == 1
MaxTodos == 1
MaxEvidence == 1

(***************************************************************************)
(* class Stage(Enum): members numbered by auto().                          *)
(***************************************************************************)
STARTUP == 1
PLAN == 2
REVIEW == 3
DISRUPT == 4
IMPLEMENT == 5
TEST == 6
REVIEW_POST == 7
VALIDATE == 8
LEARN == 9
COMPLETE == 10
FAILED == 11

Stage == STARTUP..FAILED

StageNames ==
  <<"STARTUP", "PLAN", "REVIEW", "DISRUPT", "IMPLEMENT", "TEST",
    "REVIEW_POST", "VALIDATE", "LEARN", "COMPLETE", "FAILED">>

\* Stage.name
StageName(s) == StageNames[s]

\* Stage[name]; the names the model stores are all member names
StageByName(n) == CHOOSE s \in Stage : StageNames[s] = n

\* str.lower() on the stage names and stage arguments the model uses
Lower(n) ==
  CASE n = "STARTUP" -> "startup"
    [] n = "PLAN" -> "plan"
    [] n = "REVIEW" -> "review"
    [] n = "DISRUPT" -> "disrupt"
    [] n = "IMPLEMENT" -> "implement"
    [] n = "TEST" -> "test"
    [] n = "REVIEW_POST" -> "review_post"
    [] n = "VALIDATE" -> "validate"
    [] n = "LEARN" -> "learn"
    [] n = "COMPLETE" -> "complete"
    [] n = "FAILED" -> "failed"
    [] OTHER -> n

(***************************************************************************)
(* class GateAction(Enum): the member values.                              *)
(***************************************************************************)
PROCEED == "proceed"
REVISE == "revise"
ESCALATE == "escalate"
STOP == "stop"

MAX_RETRY == 3

\* the error-count threshold of quality_gate: len(result.errors) > 10
STOP_ERRORS == 10

(***************************************************************************)
(* Python values.                                                          *)
(***************************************************************************)
VStr(v) == [t |-> "str", s |-> v]
VBool(v) == [t |-> "bool", b |-> v]
VInt(v) == [t |-> "int", n |-> v]
VNone == [t |-> "none"]
VList(v) == [t |-> "list", l |-> v]
VDict(f) == [t |-> "dict", d |-> f]

EmptyDict == VDict(<<>>)

IsDict(v) == v.t = "dict"

\* bool(v)
Truthy(v) ==
  CASE v.t = "str" -> v.s # ""
    [] v.t = "bool" -> v.b
    [] v.t = "int" -> v.n # 0
    [] v.t = "none" -> FALSE
    [] v.t = "list" -> Len(v.l) > 0
    [] v.t = "dict" -> DOMAIN v.d # {}

\* the values "k in v" is defined for; on the others it raises TypeError
IsContainer(v) == v.t \in {"dict", "str", "list"}

\* k in data: a key of a dict, a part of a str (of the strings the model
\* submits, a key is a part only of the string equal to it), an item of a list
HasKey(data, k) ==
  CASE data.t = "dict" -> k \in DOMAIN data.d
    [] data.t = "str" -> data.s = k
    [] data.t = "list" -> \E i \in 1..Len(data.l) : data.l[i] = VStr(k)
    [] OTHER -> FALSE

\* data.get(k): None when the key is absent
Get(data, k) == IF HasKey(data, k) THEN data.d[k] ELSE VNone

\* data.get(k, {})
GetOrEmpty(data, k) == IF HasKey(data, k) THEN data.d[k] ELSE EmptyDict

\* a or b
PyOr(a, b) == IF Truthy(a) THEN a ELSE b

\* isinstance(v, expected_type); bool is a subclass of int
IsInstance(v, ty) ==
  CASE ty = "list" -> v.t = "list"
    [] ty = "bool" -> v.t = "bool"
    [] ty = "int" -> v.t \in {"int", "bool"}
    [] OTHER -> FALSE

\* type(v).__name__
TypeName(v) == IF v.t = "none" THEN "NoneType" ELSE v.t

\* str(v) of the scalar values the model formats into messages
StrOf(v) ==
  CASE v.t = "str" -> v.s
    [] v.t = "bool" -> IF v.b THEN "True" ELSE "False"
    [] v.t = "int" -> ToString(v.n)
    [] v.t = "none" -> "None"
    [] v.t = "list" -> "[...]"
    [] v.t = "dict" -> "{...}"

\* f"{seq:03d}"
Pad3(n) ==
  IF n < 10 THEN "00" \o ToString(n)
  ELSE IF n < 100 THEN "0" \o ToString(n)
  ELSE ToString(n)

(***************************************************************************)
(* SCHEMAS.  Python dicts keep insertion order, so the enum, pattern and   *)
(* type tables are sequences of pairs.                                     *)
(***************************************************************************)
StageEnum == <<"PLAN", "REVIEW", "DISRUPT", "IMPLEMENT", "TEST", "VALIDATE", "LEARN">>
EvidenceTypes == <<"log", "output", "test_result", "diff", "screenshot", "api_response">>

EVIDENCE_ID_PATTERN == "^E-[A-Z]+-[\\w.]+-\\d{3}$"
CONFLICT_ID_PATTERN == "^C-\\d{8}T\\d{6}$"
RECOVERY_ID_PATTERN == "^R-\\d{8}T\\d{6}$"

NoRule == <<>>

SCHEMAS ==
  [todo |->
     [required |-> <<"id", "content", "status", "priority", "metadata">>,
      metadata_required |->
        <<"objective", "success_criteria", "fail_criteria", "evidence_required",
          "evidence_location", "agent_model", "workflow", "blocked_by", "parallel",
          "workflow_stage", "instructions_set", "time_budget", "reviewer">>,
      context_required |-> NoRule,
      enums |->
        << <<"status", <<"pending", "in_progress", "completed", "blocked", "failed">> >>,
           <<"priority", <<"high", "medium", "low">> >>,
           <<"evidence_required", EvidenceTypes>>,
           <<"workflow_stage", StageEnum>>,
           <<"agent_model", <<"Claude", "GPT", "Ollama">> >> >>,
      patterns |-> NoRule,
      types |-> << <<"blocked_by", "list">>, <<"parallel", "bool">> >>],
   evidence |->
     [required |-> <<"id", "type", "claim", "location", "timestamp", "verified", "verified_by">>,
      metadata_required |-> NoRule,
      context_required |-> NoRule,
      enums |->
        << <<"type", EvidenceTypes>>,
           <<"verified_by", <<"agent", "third-party", "user">> >> >>,
      patterns |-> << <<"id", EVIDENCE_ID_PATTERN>> >>,
      types |-> << <<"verified", "bool">> >>],
   review_gate |->
     [required |-> <<"stage", "agent", "timestamp", "criteria_checked", "approved", "action">>,
      metadata_required |-> NoRule,
      context_required |-> NoRule,
      enums |->
        << <<"action", <<"proceed", "revise", "escalate">> >>,
           <<"stage", StageEnum>> >>,
      patterns |-> NoRule,
      types |-> << <<"criteria_checked", "list">>, <<"approved", "bool">> >>],
   conflict |->
     [required |-> <<"id", "type", "parties", "positions">>,
      metadata_required |-> NoRule,
      context_required |-> NoRule,
      enums |->
        << <<"type", <<"plan_disagreement", "evidence_dispute",
                       "priority_conflict", "resource_conflict">> >> >>,
      patterns |-> << <<"id", CONFLICT_ID_PATTERN>> >>,
      types |-> << <<"parties", "list">>, <<"positions", "list">> >>],
   metrics |->
     [required |-> <<"workflow_id", "timestamp", "total_time_min", "stages",
                     "agents", "evidence", "quality">>,
      metadata_required |-> NoRule,
      context_required |-> NoRule,
      enums |-> NoRule,
      patterns |-> NoRule,
      types |-> << <<"total_time_min", "int">> >>],
   skill |->
     [required |-> <<"name", "source", "purpose", "interface", "tested", "evidence_location">>,
      metadata_required |-> NoRule,
      context_required |-> NoRule,
      enums |-> NoRule,
      patterns |-> NoRule,
      types |-> << <<"tested", "bool">> >>],
   startup |->
     [required |-> <<"mcp_verified", "scheduler_active", "memory_ok", "env_ready",
                     "workflow_dir", "timestamp">>,
      metadata_required |-> NoRule,
      context_required |-> NoRule,
      enums |-> NoRule,
      patterns |-> NoRule,
      types |-> << <<"mcp_verified", "bool">>, <<"scheduler_active", "bool">>,
                   <<"memory_ok", "bool">>, <<"env_ready", "bool">> >>],
   recovery |->
     [required |-> <<"id", "trigger", "rollback_to", "state_before", "state_after",
                     "success", "resume_stage">>,
      metadata_required |-> NoRule,
      context_required |-> NoRule,
      enums |-> << <<"resume_stage", StageEnum>> >>,
      patterns |-> << <<"id", RECOVERY_ID_PATTERN>> >>,
      types |-> << <<"success", "bool">> >>],
   handoff |->
     [required |-> <<"from_agent", "to_agent", "timestamp", "context">>,
      metadata_required |-> NoRule,
      context_required |->
        <<"user_objective", "current_stage", "completed_stages", "todos_remaining",
          "evidence_collected", "blockers", "assumptions", "memory_refs">>,
      enums |-> NoRule,
      patterns |-> NoRule,
      types |-> << <<"completed_stages", "list">>, <<"todos_remaining", "list">>,
                   <<"evidence_collected", "list">>, <<"blockers", "list">>,
                   <<"assumptions", "list">>, <<"memory_refs", "list">> >>]]

SchemaNames == DOMAIN SCHEMAS

\* QUALITY_GATES.get(stage_name, [])
QUALITY_GATES(stage_name) ==
  CASE stage_name = "PLAN" -> <<"todo", "evidence">>
    [] stage_name = "REVIEW" -> <<"review_gate", "evidence">>
    [] stage_name = "DISRUPT" -> <<"conflict", "evidence">>
    [] stage_name = "IMPLEMENT" -> <<"todo", "evidence">>
    [] stage_name = "TEST" -> <<"evidence", "metrics">>
    [] stage_name = "VALIDATE" -> <<"review_gate", "evidence">>
    [] stage_name = "LEARN" -> <<"skill", "metrics">>
    [] OTHER -> <<>>

(***************************************************************************)
(* Regular expressions.  TLC cannot take a string apart, so re.match is    *)
(* modelled by membership in the language of the pattern restricted to     *)
(* the strings the model can build: every identifier of the model is a     *)
(* concatenation of the parts below.                                       *)
(***************************************************************************)
\* strings of the model that match [A-Z]+
UpperWords ==
  {"STARTUP", "PLAN", "REVIEW", "DISRUPT", "IMPLEMENT", "TEST", "VALIDATE",
   "LEARN", "COMPLETE", "FAILED"}

\* strings of the model that match [\w.]+
WordStrings == {"test_wor", "20260104"}

\* strings of the model that match \d{8} and \d{6}
Digits8 == {"20260104"}
Digits6 == {"070000"}

EvidenceIdLanguage ==
  {"E-" \o st \o "-" \o w \o "-" \o Pad3(k) : st \in UpperWords, w \in WordStrings, k \in 0..999}

ConflictIdLanguage == {"C-" \o a \o "T" \o b : a \in Digits8, b \in Digits6}

RecoveryIdLanguage == {"R-" \o a \o "T" \o b : a \in Digits8, b \in Digits6}

\* re.match(pattern, text) is not None
ReMatch(pattern, text) ==
  CASE pattern = EVIDENCE_ID_PATTERN -> text \in EvidenceIdLanguage
    [] pattern = CONFLICT_ID_PATTERN -> text \in ConflictIdLanguage
    [] pattern = RECOVERY_ID_PATTERN -> text \in RecoveryIdLanguage
    [] OTHER -> FALSE

\* repr of a list of strings: ['a', 'b']
ReprList(xs) ==
  LET F[i \in 0..Len(xs)] ==
        IF i = 0 THEN ""
        ELSE F[i - 1] \o (IF i = 1 THEN "" ELSE ", ") \o "'" \o xs[i] \o "'"
  IN "[" \o F[Len(xs)] \o "]"

\* x in allowed, for a list of strings
InList(v, allowed) == v.t = "str" /\ \E i \in 1..Len(allowed) : allowed[i] = v.s

(***************************************************************************)
(* validate_schema(data, schema_name) -> (valid, errors)                   *)
(***************************************************************************)
\* the "Required fields" loop
RequiredErrors(data, required) ==
  LET Missing(f) == \/ ~HasKey(data, f)
                    \/ data.d[f].t = "none"
                    \/ data.d[f] = VStr("")
      F[i \in 0..Len(required)] ==
        IF i = 0 THEN <<>>
        ELSE F[i - 1] \o (IF Missing(required[i])
                          THEN <<"Missing: " \o required[i]>> ELSE <<>>)
  IN F[Len(required)]

\* the "Nested required" loop for one of metadata, context
NestedErrors(data, nested, fields) ==
  LET nested_data == GetOrEmpty(data, nested)
      F[i \in 0..Len(fields)] ==
        IF i = 0 THEN <<>>
        ELSE F[i - 1] \o (IF ~HasKey(nested_data, fields[i])
                          THEN <<"Missing: " \o nested \o "." \o fields[i]>> ELSE <<>>)
  IN F[Len(fields)]

\* data.get(field_name) or data.get("metadata", {}).get(field_name)
LookupWithMetadata(data, f) == PyOr(Get(data, f), Get(GetOrEmpty(data, "metadata"), f))

\* the "Enum validation" loop
EnumErrors(data, enums) ==
  LET F[i \in 0..Len(enums)] ==
        IF i = 0 THEN <<>>
        ELSE LET f == enums[i][1]
                 allowed == enums[i][2]
                 val == LookupWithMetadata(data, f)
             IN F[i - 1] \o (IF Truthy(val) /\ ~InList(val, allowed)
                             THEN <<f \o ": '" \o StrOf(val) \o "' not in " \o ReprList(allowed)>>
                             ELSE <<>>)
  IN F[Len(enums)]

\* the "Pattern validation" loop
PatternErrors(data, patterns) ==
  LET F[i \in 0..Len(patterns)] ==
        IF i = 0 THEN <<>>
        ELSE LET f == patterns[i][1]
                 pattern == patterns[i][2]
             IN F[i - 1] \o (IF HasKey(data, f) /\ Truthy(data.d[f])
                                /\ ~ReMatch(pattern, StrOf(data.d[f]))
                             THEN <<f \o ": pattern mismatch (expected " \o pattern \o ")">>
                             ELSE <<>>)
  IN F[Len(patterns)]

\* the "Type validation" loop
TypeErrors(data, types) ==
  LET F[i \in 0..Len(types)] ==
        IF i = 0 THEN <<>>
        ELSE LET f == types[i][1]
                 ty == types[i][2]
                 val == LookupWithMetadata(data, f)
             IN F[i - 1] \o (IF val.t # "none" /\ ~IsInstance(val, ty)
                             THEN <<f \o ": expected " \o ty \o ", got " \o TypeName(val)>>
                             ELSE <<>>)
  IN F[Len(types)]

validate_schema(data0, schema_name) ==
  LET Result(errors) == [valid |-> Len(errors) = 0, errors |-> errors]
      Check(data, schema) ==
        Result(RequiredErrors(data, schema.required)
               \o NestedErrors(data, "metadata", schema.metadata_required)
               \o NestedErrors(data, "context", schema.context_required)
               \o EnumErrors(data, schema.enums)
               \o PatternErrors(data, schema.patterns)
               \o TypeErrors(data, schema.types))
  IN IF schema_name \notin SchemaNames
     THEN [valid |-> FALSE, errors |-> <<"Unknown schema: " \o schema_name>>]
     ELSE Check(\* unwrap {"evidence": {...}} -> {...}
                IF HasKey(data0, schema_name) /\ IsDict(data0.d[schema_name])
                THEN data0.d[schema_name] ELSE data0,
                SCHEMAS[schema_name])

(***************************************************************************)
(* detect_schema(data) -> schema name or None ("" stands for None: the     *)
(* caller only tests the result for truth).                                *)
(***************************************************************************)
NoSchema == ""

detect_schema(data) ==
  IF HasKey(data, "evidence") THEN "evidence"
  ELSE IF HasKey(data, "handoff") THEN "handoff"
  ELSE IF HasKey(data, "review_gate") THEN "review_gate"
  ELSE IF HasKey(data, "conflict") THEN "conflict"
  ELSE IF HasKey(data, "metrics") THEN "metrics"
  ELSE IF HasKey(data, "skill") THEN "skill"
  ELSE IF HasKey(data, "startup") THEN "startup"
  ELSE IF HasKey(data, "recovery") THEN "recovery"
  ELSE IF HasKey(data, "metadata") /\ HasKey(GetOrEmpty(data, "metadata"), "objective")
       THEN "todo"
  ELSE NoSchema

(***************************************************************************)
(* State.                                                                  *)
(***************************************************************************)
VARIABLES
  workflow_id,       \* WorkflowMachine.workflow_id
  current_stage,     \* WorkflowMachine.current_stage
  completed_stages,  \* WorkflowMachine.completed_stages
  stage_outputs,     \* WorkflowMachine.stage_outputs: stage -> outputs
  todos,             \* WorkflowMachine.todos
  evidence,          \* WorkflowMachine.evidence
  retry_counts,      \* WorkflowMachine.retry_counts: the stages with a count -> count
  user_objective,    \* WorkflowMachine.user_objective
  state_file,        \* state/current.json: <<>> when absent, else <<document>>
  gate_logs,         \* logs/gate_<stage>.json: the stage names logged -> GateResult
  files,             \* the evidence files that exist
  readiness,         \* the result of the last StartupValidator.run_all_checks
  restarts,          \* number of startup() calls made past STARTUP (bookkeeping
                     \* for the bound MaxDetours)
  last,              \* the last call of a method: operation, stage it was made
                     \* in, return value, gate result, and for _load_state the
                     \* machine it was called on
  timer,             \* the RepromptTimer: its fields, its background thread and
                     \* the caller of stop()
  output_files,      \* <stage>_output.json in the workflow directory: stage ->
                     \* the outputs it lists (<<>> when absent or empty)
  retry_files,       \* state/retry_<stage>.txt: the stage names written -> count
  reprompts          \* logs/reprompt_<stage>_<n>.md: the names written

machine_vars ==
  <<workflow_id, current_stage, completed_stages, stage_outputs, todos,
    evidence, retry_counts, user_objective>>

timer_vars == <<timer, output_files, retry_files, reprompts>>

vars ==
  <<workflow_id, current_stage, completed_stages, stage_outputs, todos,
    evidence, retry_counts, user_objective, state_file, gate_logs, files,
    readiness, restarts, last, timer, output_files, retry_files, reprompts>>

\* the workflow id and base_path the controller is constructed with
WORKFLOW_ID == "test_workflow"
BASE_PATH == "/w/test_workflow"

\* the id a controller constructed without workflow_id gives itself
GENERATED_ID == "20260104_070000_abc123"

\* workflow_id[:8]
Prefix8(id) ==
  CASE id = "test_workflow" -> "test_wor"
    [] id = "20260104_070000_abc123" -> "20260104"
    [] OTHER -> id

\* datetime.now(timezone.utc).isoformat(): time is not modelled
NOW == "2026-01-04T07:00:00+00:00"

EmptyMap == [x \in {} |-> 0]

\* d.get(k, 0) on a map
MapGet(m, k) == IF k \in DOMAIN m THEN m[k] ELSE 0

\* d[k] = v on a map
MapSet(m, k, v) == [x \in DOMAIN m \cup {k} |-> IF x = k THEN v ELSE m[x]]

(***************************************************************************)
(* quality_gate(stage, outputs, retry) -> GateResult                       *)
(***************************************************************************)
\* stage.name.replace("_POST", "")
GateStageName(stage) == IF stage = REVIEW_POST THEN "REVIEW" ELSE StageName(stage)

\* x in result.checked
\* detect_schema raises: "in" on a value that is no container (TypeError), or
\* .get on a value that is no dict when the "metadata" test is reached
\* (AttributeError)
WrapperKeys ==
  <<"evidence", "handoff", "review_gate", "conflict", "metrics", "skill",
    "startup", "recovery">>

DetectRaises(data) ==
  IF ~IsContainer(data) THEN TRUE
  ELSE IF \E i \in 1..Len(WrapperKeys) : HasKey(data, WrapperKeys[i]) THEN FALSE
  ELSE /\ HasKey(data, "metadata")
       /\ \/ ~IsDict(data)
          \/ ~IsContainer(data.d["metadata"])

\* data.get(field_name) or data.get("metadata", {}).get(field_name) raises
\* AttributeError when the second operand is evaluated on a metadata that is
\* no dict
LookupRaises(data, f) ==
  /\ ~Truthy(Get(data, f))
  /\ HasKey(data, "metadata")
  /\ ~IsDict(data.d["metadata"])

\* validate_schema raises: indexing or .get on data that is no dict, "in" on
\* a nested value that is no container, or the lookup above in the enum and
\* type loops
ValidateRaises(data0, schema_name) ==
  LET Nested(data, nested, fields) ==
        /\ Len(fields) > 0
        /\ HasKey(data, nested)
        /\ ~IsContainer(data.d[nested])
      Check(data, schema) ==
        \/ Nested(data, "metadata", schema.metadata_required)
        \/ Nested(data, "context", schema.context_required)
        \/ \E i \in 1..Len(schema.enums) : LookupRaises(data, schema.enums[i][1])
        \/ \E i \in 1..Len(schema.types) : LookupRaises(data, schema.types[i][1])
  IN IF schema_name \notin SchemaNames THEN FALSE
     ELSE IF ~IsDict(data0) THEN TRUE
     ELSE Check(IF HasKey(data0, schema_name) /\ IsDict(data0.d[schema_name])
                THEN data0.d[schema_name] ELSE data0,
                SCHEMAS[schema_name])

\* the loop "Validate each output" raises on some output
ValidateOutputsRaises(outputs) ==
  \E i \in 1..Len(outputs) :
    \/ DetectRaises(outputs[i])
    \/ /\ detect_schema(outputs[i]) # NoSchema
       /\ ValidateRaises(outputs[i], detect_schema(outputs[i]))

\* output["evidence"].get("location") raises AttributeError when the wrapper
\* key holds a value that is no dict
MissingFilesRaises(outputs) ==
  \E i \in 1..Len(outputs) :
    /\ HasKey(outputs[i], "evidence")
    /\ ~IsDict(outputs[i].d["evidence"])

InSeq(x, xs) == \E i \in 1..Len(xs) : xs[i] = x

\* [f"[{schema_name}] {e}" for e in errors]
Prefixed(schema_name, errors) ==
  [i \in 1..Len(errors) |-> "[" \o schema_name \o "] " \o errors[i]]

\* the loop "Validate each output against its schema"
ValidateOutputs(outputs) ==
  LET Checked(result, schema_name, v) ==
        IF schema_name = NoSchema THEN result
        ELSE [valid |-> result.valid /\ v.valid,
              checked |-> Append(result.checked, schema_name),
              errors |-> IF v.valid THEN result.errors
                         ELSE result.errors \o Prefixed(schema_name, v.errors)]
      F[i \in 0..Len(outputs)] ==
        IF i = 0 THEN [valid |-> TRUE, checked |-> <<>>, errors |-> <<>>]
        ELSE Checked(F[i - 1], detect_schema(outputs[i]),
                     validate_schema(outputs[i], detect_schema(outputs[i])))
  IN F[Len(outputs)]

\* the loop "Check required schemas are present"
\* variant: no required schema is looked for
MissingRequiredNone(required, checked) == <<>>

MissingRequired(required, checked) ==
  LET F[i \in 0..Len(required)] ==
        IF i = 0 THEN <<>>
        ELSE F[i - 1] \o (IF ~InSeq(required[i], checked)
                          THEN <<"Missing required schema: " \o required[i]>> ELSE <<>>)
  IN F[Len(required)]

\* the loop "Check evidence files exist"; existing is the set of paths for
\* which Path(evidence_loc).exists()
MissingFiles(outputs, existing) ==
  LET F[i \in 0..Len(outputs)] ==
        IF i = 0 THEN <<>>
        ELSE LET loc == IF HasKey(outputs[i], "evidence")
                        THEN Get(outputs[i].d["evidence"], "location") ELSE VNone
             IN F[i - 1] \o (IF Truthy(loc) /\ StrOf(loc) \notin existing
                             THEN <<"Evidence file missing: " \o StrOf(loc)>> ELSE <<>>)
  IN F[Len(outputs)]

\* the branch "Determine action"
\* variant: a single error is tolerated
DetermineActionLenient(valid, nerrors, retry) ==
  IF valid \/ nerrors <= 1 THEN PROCEED
  ELSE IF retry >= MAX_RETRY THEN ESCALATE
  ELSE IF nerrors > STOP_ERRORS THEN STOP
  ELSE REVISE

\* variant: ten errors already stop
DetermineActionStopAtTen(valid, nerrors, retry) ==
  IF valid THEN PROCEED
  ELSE IF retry >= MAX_RETRY THEN ESCALATE
  ELSE IF nerrors >= STOP_ERRORS THEN STOP
  ELSE REVISE

DetermineAction(valid, nerrors, retry) ==
  IF valid THEN PROCEED
  ELSE IF retry >= MAX_RETRY THEN ESCALATE
  ELSE IF nerrors > STOP_ERRORS THEN STOP
  ELSE REVISE

quality_gate(stage, outputs, retry, existing) ==
  LET Result(stage_name, valid, checked, errors) ==
        [stage |-> stage_name,
         valid |-> valid,
         checked |-> checked,
         errors |-> errors,
         action |-> DetermineAction(valid, Len(errors), retry),
         retry |-> retry,
         timestamp |-> NOW]
      Files(stage_name, vo, missing, nofile) ==
        Result(stage_name,
               vo.valid /\ Len(missing) = 0 /\ Len(nofile) = 0,
               vo.checked,
               vo.errors \o missing \o nofile)
      Required(stage_name, vo) ==
        Files(stage_name, vo,
              MissingRequired(QUALITY_GATES(stage_name), vo.checked),
              MissingFiles(outputs, existing))
  IN Required(GateStageName(stage), ValidateOutputs(outputs))

\* quality_gate raises instead of returning a GateResult
quality_gate_raises(outputs) ==
  ValidateOutputsRaises(outputs) \/ MissingFilesRaises(outputs)

\* no gate was evaluated by the call
NoGate ==
  [stage |-> "", valid |-> TRUE, checked |-> <<>>, errors |-> <<>>,
   action |-> "none", retry |-> 0, timestamp |-> ""]

(***************************************************************************)
(* Record factories: the records create_todo and create_evidence build.    *)
(***************************************************************************)
\* metadata.get(k, default) on the keyword arguments
KwGet(kwargs, k, default) == IF HasKey(kwargs, k) THEN kwargs.d[k] ELSE default

\* f"{len(self.todos) + 1}.1"
TodoId(ntodos) == ToString(ntodos + 1) \o ".1"

BuildTodo(ntodos, content, priority, kwargs, stage, base_path) ==
  VDict(
    [id |-> VStr(TodoId(ntodos)),
     content |-> VStr(content),
     status |-> VStr("pending"),
     priority |-> VStr(priority),
     metadata |-> VDict(
       [objective |-> KwGet(kwargs, "objective", VStr(content)),
        success_criteria |-> KwGet(kwargs, "success_criteria", VStr("Task completed")),
        fail_criteria |-> KwGet(kwargs, "fail_criteria", VStr("Task not completed")),
        evidence_required |-> KwGet(kwargs, "evidence_required", VStr("log")),
        evidence_location |-> VStr(base_path \o "/evidence/" \o TodoId(ntodos) \o ".log"),
        agent_model |-> KwGet(kwargs, "agent_model", VStr("Claude")),
        workflow |-> VStr("PLAN>REVIEW>DISRUPT>IMPLEMENT>TEST>REVIEW>VALIDATE>LEARN"),
        blocked_by |-> KwGet(kwargs, "blocked_by", VList(<<>>)),
        parallel |-> KwGet(kwargs, "parallel", VBool(FALSE)),
        workflow_stage |-> VStr(StageName(stage)),
        instructions_set |-> VStr("AGENTS_3.md"),
        time_budget |-> KwGet(kwargs, "time_budget", VStr("<=60m")),
        reviewer |-> KwGet(kwargs, "reviewer", VStr("gpt-5.2"))])])

\* f"E-{stage}-{self.workflow_id[:8]}-{seq:03d}"
EvidenceId(stage, id, seq) == "E-" \o stage \o "-" \o Prefix8(id) \o "-" \o Pad3(seq)

\* the stage arguments of create_evidence the model uses
StageArgs == {"PLAN", "TEST", "REVIEW_POST"}

\* a.startswith(b) for the stage arguments of the model
IsPrefixOf(b, a) == b = a \/ (b = "REVIEW" /\ a = "REVIEW_POST")

\* e.get("evidence", {}).get("id", "").startswith(f"E-{stage}"), for the
\* identifiers the model builds
IdStartsWith(e, stage, maxseq) ==
  LET id == Get(GetOrEmpty(e, "evidence"), "id")
  IN /\ id.t = "str"
     /\ \E st \in UpperWords \cup StageArgs, w \in WordStrings, k \in 1..maxseq :
          /\ id.s = "E-" \o st \o "-" \o w \o "-" \o Pad3(k)
          /\ IsPrefixOf(stage, st)

\* variant: the records of every stage are counted
NextSeqAllStages(evs, stage) == Len(evs) + 1

\* len([e for e in self.evidence if ...startswith(f"E-{stage}")]) + 1
NextSeq(evs, stage) == Cardinality({i \in 1..Len(evs) : IdStartsWith(evs[i], stage, Len(evs))}) + 1

\* location or str(self.base_path / "evidence" / f"{stage.lower()}.log")
EvidenceLocation(location, stage, base_path) ==
  IF location # "" THEN location ELSE base_path \o "/evidence/" \o Lower(stage) \o ".log"

BuildEvidence(evs, stage, claim, location, id, base_path) ==
  VDict(
    [evidence |-> VDict(
       [id |-> VStr(EvidenceId(stage, id, NextSeq(evs, stage))),
        type |-> VStr("log"),
        claim |-> VStr(claim),
        location |-> VStr(EvidenceLocation(location, stage, base_path)),
        timestamp |-> VStr(NOW),
        verified |-> VBool(TRUE),
        verified_by |-> VStr("agent")])])

(***************************************************************************)
(* Output records a caller stores in stage_outputs.                        *)
(***************************************************************************)
SampleTodo == BuildTodo(0, "Test", "high", EmptyDict, PLAN, BASE_PATH)

SampleEvidence == BuildEvidence(<<>>, "PLAN", "Test", "", WORKFLOW_ID, BASE_PATH)

\* a todo that has nothing but metadata.objective: 16 violations
BrokenTodo == VDict([metadata |-> VDict([objective |-> VStr("x")])])

SampleReviewGate ==
  VDict([review_gate |-> VDict(
    [stage |-> VStr("REVIEW"), agent |-> VStr("Reviewer"), timestamp |-> VStr(NOW),
     criteria_checked |-> VList(<<VStr("schema")>>), approved |-> VBool(TRUE),
     action |-> VStr("proceed")])])

SampleConflict ==
  VDict([conflict |-> VDict(
    [id |-> VStr("C-20260104T070000"), type |-> VStr("plan_disagreement"),
     parties |-> VList(<<VStr("A"), VStr("B")>>),
     positions |-> VList(<<VStr("p"), VStr("q")>>)])])

SampleMetrics ==
  VDict([metrics |-> VDict(
    [workflow_id |-> VStr(WORKFLOW_ID), timestamp |-> VStr(NOW),
     total_time_min |-> VInt(5), stages |-> VDict([PLAN |-> VInt(1)]),
     agents |-> VDict([Planner |-> VInt(1)]), evidence |-> VDict([count |-> VInt(1)]),
     quality |-> VDict([reprompts |-> VInt(1)])])])

SampleSkill ==
  VDict([skill |-> VDict(
    [name |-> VStr("s"), source |-> VStr("learned"), purpose |-> VStr("p"),
     interface |-> VStr("i"), tested |-> VBool(TRUE),
     evidence_location |-> VStr(BASE_PATH \o "/evidence/skill.log")])])

\* outputs that satisfy the gate of the stage once the evidence file exists
GoodOutputs(stage) ==
  CASE stage \in {PLAN, IMPLEMENT} -> <<SampleTodo, SampleEvidence>>
    [] stage \in {REVIEW, REVIEW_POST, VALIDATE} -> <<SampleReviewGate, SampleEvidence>>
    [] stage = DISRUPT -> <<SampleConflict, SampleEvidence>>
    [] stage = TEST -> <<SampleEvidence, SampleMetrics>>
    [] stage = LEARN -> <<SampleSkill, SampleMetrics>>
    [] OTHER -> <<>>

\* the output lists a caller records for a stage: the outputs that pass its
\* gate and, for PLAN, a list whose todo breaks the schema in more than
\* STOP_ERRORS places; nothing is recorded for STARTUP, COMPLETE and
\* FAILED, which have no work
OutputChoices(stage) ==
  IF stage \in {STARTUP, COMPLETE, FAILED} THEN {<<>>}
  ELSE IF stage = PLAN THEN {GoodOutputs(stage), <<BrokenTodo>>}
  ELSE {GoodOutputs(stage)}

\* the evidence files a caller writes
EvidencePaths == {BASE_PATH \o "/evidence/plan.log"}

(***************************************************************************)
(* Persistence: _save_state and _load_state.                               *)
(***************************************************************************)
\* [s.name for s in self.completed_stages]
NamesOf(stages) == [i \in 1..Len(stages) |-> StageName(stages[i])]

\* [Stage[s] for s in state["completed_stages"]]
StagesOf(names) == [i \in 1..Len(names) |-> StageByName(names[i])]

\* {s.name: c for s, c in self.retry_counts.items()}
RetryByName(rc) ==
  [n \in {StageName(s) : s \in DOMAIN rc} |-> rc[StageByName(n)]]

\* {Stage[s]: c for s, c in state["retry_counts"].items()}
RetryByStage(rc) ==
  [s \in {StageByName(n) : n \in DOMAIN rc} |-> rc[StageName(s)]]

\* the document _save_state writes
StateDocument(id, stage, completed, tds, evs, rc, objective) ==
  [workflow_id |-> id,
   current_stage |-> StageName(stage),
   completed_stages |-> NamesOf(completed),
   todos |-> tds,
   evidence |-> evs,
   start_time |-> NOW,
   retry_counts |-> RetryByName(rc),
   user_objective |-> objective,
   timestamp |-> NOW]

\* the fields of a WorkflowMachine right after __init__
NewMachine(id) ==
  [workflow_id |-> id,
   current_stage |-> STARTUP,
   completed_stages |-> <<>>,
   todos |-> <<>>,
   evidence |-> <<>>,
   retry_counts |-> EmptyMap,
   user_objective |-> ""]

\* state/current.json between open(state_path, "w"), which empties it, and
\* the end of json.dump: no JSON document
TruncatedDocument == [truncated |-> TRUE]

\* the fields of a machine after _load_state read the document
\* variant: the retry map of the document is not read back
LoadedMachineNoRetry(doc) ==
  [workflow_id |-> doc.workflow_id,
   current_stage |-> StageByName(doc.current_stage),
   completed_stages |-> StagesOf(doc.completed_stages),
   todos |-> doc.todos,
   evidence |-> doc.evidence,
   retry_counts |-> EmptyMap,
   user_objective |-> doc.user_objective]

LoadedMachine(doc) ==
  [workflow_id |-> doc.workflow_id,
   current_stage |-> StageByName(doc.current_stage),
   completed_stages |-> StagesOf(doc.completed_stages),
   todos |-> doc.todos,
   evidence |-> doc.evidence,
   retry_counts |-> RetryByStage(doc.retry_counts),
   user_objective |-> doc.user_objective]

\* the fields of the first machine, for comparison with a loaded one
ThisMachine ==
  [workflow_id |-> workflow_id,
   current_stage |-> current_stage,
   completed_stages |-> completed_stages,
   todos |-> todos,
   evidence |-> evidence,
   retry_counts |-> retry_counts,
   user_objective |-> user_objective]

\* the document _save_state writes for the machine as it is; in an action,
\* CurrentDocument' is the document written after the action's assignments
CurrentDocument ==
  StateDocument(workflow_id, current_stage, completed_stages, todos, evidence,
                retry_counts, user_objective)

(***************************************************************************)
(* Initial state: a WorkflowMachine was constructed, nothing is on disk.   *)
(***************************************************************************)
NoReadiness == [status |-> "NONE", failed |-> {}]

\* hooks: the calls _trigger_hooks made during the operation, in order
Call(op, from, ok, gate, raised) ==
  [op |-> op, from |-> from, ok |-> ok, gate |-> gate, raised |-> raised,
   machine |-> NewMachine(GENERATED_ID), hooks |-> <<>>]

\* RepromptTimer.__init__.  Beside the object's fields: thread is the position
\* of the background thread ("none" before the first start), joining says that
\* a caller is inside stop(), stopped that stop() has returned since the last
\* start(), returned is the return value of the latest check() (NoGate for
\* None), raised says that the latest check() raised, callbacks counts the
\* calls of on_gate_fail and callback_saw_log says whether the latest such
\* call found the tick's gate log written; manual is the position of a caller
\* of check() outside the background thread ("idle" or "checking"); now is
\* the clock, in the unit Interval is given in, and wake_at the time at which
\* the timeout of the thread's stop_event.wait ends; replaced is the position
\* of a thread that was alive when start() put a new one in timer_thread
MaxClock == 5

\* interval_seconds
Interval == 2

NewTimer ==
  [active |-> FALSE, stop_event |-> FALSE, thread |-> "none",
   check_count |-> 0, fail_count |-> 0, last_result |-> NoGate,
   returned |-> NoGate, raised |-> FALSE, callbacks |-> 0,
   callback_saw_log |-> FALSE, joining |-> FALSE, stopped |-> FALSE,
   manual |-> "idle", now |-> 0, last_check |-> 0, wake_at |-> 0,
   replaced |-> "none"]

Init ==
  /\ workflow_id = WORKFLOW_ID
  /\ current_stage = STARTUP
  /\ completed_stages = <<>>
  /\ stage_outputs = [s \in Stage |-> <<>>]
  /\ todos = <<>>
  /\ evidence = <<>>
  /\ retry_counts = EmptyMap
  /\ user_objective = ""
  /\ state_file = <<>>
  /\ gate_logs = EmptyMap
  /\ files = {}
  /\ readiness = NoReadiness
  /\ restarts = 0
  /\ last = Call("init", STARTUP, TRUE, NoGate, FALSE)
  /\ timer = NewTimer
  /\ output_files = [s \in Stage |-> <<>>]
  /\ retry_files = EmptyMap
  /\ reprompts = {}

(***************************************************************************)
(* WorkflowMachine.transition(to_stage)                                    *)
(***************************************************************************)
\* variant: the order has a single REVIEW
stage_orderSingleReview ==
  <<STARTUP, PLAN, REVIEW, DISRUPT, IMPLEMENT, TEST, VALIDATE, LEARN>>

stage_order ==
  <<STARTUP, PLAN, REVIEW, DISRUPT, IMPLEMENT, TEST, REVIEW_POST, VALIDATE, LEARN>>

\* stage_order.index(s) if s in stage_order else -1
OrderIndex(s) ==
  IF \E i \in 1..Len(stage_order) : stage_order[i] = s
  THEN (CHOOSE i \in 1..Len(stage_order) : stage_order[i] = s) - 1
  ELSE -1

\* variant: a request for the same or an earlier stage is let through
OrderRejectsForwardOnly(from, to) ==
  to \notin {FAILED, COMPLETE} /\ OrderIndex(to) > OrderIndex(from) + 1

\* variant: a request two positions ahead is let through
OrderRejectsSkipOne(from, to) ==
  to \notin {FAILED, COMPLETE}
  /\ OrderIndex(to) \notin {OrderIndex(from) + 1, OrderIndex(from) + 2}

\* the check "Can only move forward by 1 (except FAILED/COMPLETE)"
OrderRejects(from, to) ==
  to \notin {FAILED, COMPLETE} /\ OrderIndex(to) # OrderIndex(from) + 1

\* number of entries of the history that are terminal stages
TerminalEntries(completed) ==
  Cardinality({i \in 1..Len(completed) : completed[i] \in {FAILED, COMPLETE}})

\* moves back in the stage order so far: transitions out of a terminal stage
\* and startup() calls past STARTUP
Regressions == TerminalEntries(completed_stages) + restarts

\* departures from the straight pipeline so far: moves back in the order and
\* stages with failed attempts
Detours == Regressions + Cardinality(DOMAIN retry_counts)

\* bounds on the calls of transition the model explores
TransitionWithinBounds ==
  /\ Len(completed_stages) < MaxHistory
  /\ current_stage \in {FAILED, COMPLETE} => Detours < MaxDetours

\* bounds on the failed attempts the model explores
RetryWithinBounds ==
  /\ MapGet(retry_counts, current_stage) < MaxRetryCount
  /\ current_stage \notin DOMAIN retry_counts => Detours < MaxDetours

\* the gate transition runs on the current stage
CurrentGate ==
  quality_gate(current_stage, stage_outputs[current_stage],
               MapGet(retry_counts, current_stage), files)

\* variant: the counter is left as it was
IncrementedRetryNone(retry) == retry

\* self.retry_counts[self.current_stage] = retry + 1
IncrementedRetry(retry) == retry + 1

\* variant: STOP leaves the stage where it was
StageOnStopStay(stage) == stage

\* self.current_stage = Stage.FAILED, on STOP
StageOnStop(stage) == FAILED

\* variant: the source stage is appended twice
AppendCompletedTwice(completed, stage) == Append(Append(completed, stage), stage)

\* self.completed_stages.append(self.current_stage)
AppendCompleted(completed, stage) == Append(completed, stage)

\* gate_log is opened with "w": one file per stage name
WriteGateLog(g) == MapSet(gate_logs, Lower(g.stage), g)

\* what a callback registered for an event is called with and what it finds
\* in the machine: persisted says whether _save_state has run in this call
HookCall(event, args, stage, completed) ==
  [event |-> event, args |-> args, current_stage |-> stage,
   completed_stages |-> completed, persisted |-> FALSE]

\* the two _trigger_hooks calls of a successful transition
TransitionHooks(from, to_stage, completed) ==
  <<HookCall("on_stage_exit", <<from, to_stage>>, from, completed),
    HookCall("on_stage_enter", <<to_stage>>, to_stage,
             AppendCompleted(completed, from))>>

\* variant: the rejection is raised
RejectedCallRaising(from) == Call("transition", from, FALSE, NoGate, TRUE)

\* "Invalid transition": return False
RejectedCall(from) == Call("transition", from, FALSE, NoGate, FALSE)

Transition(to_stage) ==
  LET Run(g, retry) ==
        IF OrderRejects(current_stage, to_stage)
        THEN /\ last' = RejectedCall(current_stage)
             /\ UNCHANGED <<current_stage, completed_stages, retry_counts, state_file,
                            gate_logs>>
        ELSE IF current_stage # STARTUP /\ g.action # PROCEED
        THEN /\ gate_logs' = WriteGateLog(g)
             /\ last' = Call("transition", current_stage, FALSE, g, FALSE)
             /\ IF g.action \in {REVISE, ESCALATE}
                THEN /\ RetryWithinBounds
                     /\ retry_counts' = MapSet(retry_counts, current_stage,
                                               IncrementedRetry(retry))
                     /\ UNCHANGED <<current_stage, completed_stages, state_file>>
                ELSE /\ current_stage' = StageOnStop(current_stage)
                     /\ UNCHANGED <<completed_stages, retry_counts>>
                     /\ state_file' = <<CurrentDocument'>>
        ELSE /\ gate_logs' = IF current_stage # STARTUP THEN WriteGateLog(g)
                             ELSE gate_logs
             /\ completed_stages' = AppendCompleted(completed_stages, current_stage)
             /\ current_stage' = to_stage
             /\ UNCHANGED retry_counts
             /\ state_file' = <<CurrentDocument'>>
             /\ last' = [Call("transition", current_stage, TRUE,
                              IF current_stage # STARTUP THEN g ELSE NoGate, FALSE)
                           EXCEPT !.hooks = TransitionHooks(current_stage, to_stage,
                                                            completed_stages)]
  IN
  /\ TransitionWithinBounds
  /\ UNCHANGED timer_vars
  /\ UNCHANGED <<workflow_id, stage_outputs, todos, evidence, user_objective, files,
                 readiness, restarts>>
  /\ Run(CurrentGate, MapGet(retry_counts, current_stage))

(***************************************************************************)
(* WorkflowMachine.startup(): the MCP ping is simulated and always passes. *)
(***************************************************************************)
MCP_SERVERS ==
  {"memory", "todo", "sequential-thinking", "git", "github", "scheduler",
   "openai-chat", "credentials", "mcp-gateway", "claude-context"}

\* mcp_status[server] = True  # Simulated success
mcp_status == [server \in MCP_SERVERS |-> TRUE]

Startup ==
  /\ current_stage # STARTUP => Detours < MaxDetours
  /\ restarts' = IF current_stage # STARTUP THEN restarts + 1 ELSE restarts
  /\ UNCHANGED <<workflow_id, completed_stages, stage_outputs, todos, evidence,
                 retry_counts, user_objective, gate_logs, files, readiness>>
  /\ IF \A server \in MCP_SERVERS : mcp_status[server]
     THEN /\ current_stage' = PLAN
          /\ state_file' = <<CurrentDocument'>>
          /\ last' = Call("startup", current_stage, TRUE, NoGate, FALSE)
     ELSE /\ last' = Call("startup", current_stage, FALSE, NoGate, FALSE)
          /\ UNCHANGED <<current_stage, state_file>>
  /\ UNCHANGED timer_vars

(***************************************************************************)
(* WorkflowMachine.create_todo and create_evidence                         *)
(***************************************************************************)
\* variant: the todo is appended without the validation
CreateTodoUnchecked(content, priority, kwargs) ==
  LET todo == BuildTodo(Len(todos), content, priority, kwargs, current_stage, BASE_PATH)
  IN
  /\ Len(todos) < MaxTodos
  /\ UNCHANGED <<workflow_id, current_stage, completed_stages, stage_outputs, evidence,
                 retry_counts, user_objective, gate_logs, files, readiness,
                 restarts>>
  /\ todos' = Append(todos, todo)
  /\ state_file' = <<CurrentDocument'>>
  /\ last' = Call("create_todo", current_stage, TRUE, NoGate, FALSE)
  /\ UNCHANGED timer_vars

CreateTodo(content, priority, kwargs) ==
  LET todo == BuildTodo(Len(todos), content, priority, kwargs, current_stage, BASE_PATH)
      v == validate_schema(todo, "todo")
  IN
  /\ Len(todos) < MaxTodos
  /\ UNCHANGED <<workflow_id, current_stage, completed_stages, stage_outputs, evidence,
                 retry_counts, user_objective, gate_logs, files, readiness,
                 restarts>>
  /\ IF ~v.valid
     THEN \* raise ValueError
          /\ last' = Call("create_todo", current_stage, FALSE, NoGate, TRUE)
          /\ UNCHANGED <<todos, state_file>>
     ELSE /\ todos' = Append(todos, todo)
          /\ state_file' = <<CurrentDocument'>>
          /\ last' = Call("create_todo", current_stage, TRUE, NoGate, FALSE)
  /\ UNCHANGED timer_vars

\* create_evidence while the list holds fewer than max records
CreateEvidenceUpTo(max, stage, claim, location) ==
  LET ev == BuildEvidence(evidence, stage, claim, location, workflow_id, BASE_PATH)
      v == validate_schema(ev, "evidence")
  IN
  /\ Len(evidence) < max
  /\ UNCHANGED <<workflow_id, current_stage, completed_stages, stage_outputs, todos,
                 retry_counts, user_objective, gate_logs, files, readiness,
                 restarts>>
  /\ IF ~v.valid
     THEN \* raise ValueError
          /\ last' = Call("create_evidence", current_stage, FALSE, NoGate, TRUE)
          /\ UNCHANGED <<evidence, state_file>>
     ELSE /\ evidence' = Append(evidence, ev)
          /\ state_file' = <<CurrentDocument'>>
          /\ last' = Call("create_evidence", current_stage, TRUE, NoGate, FALSE)
  /\ UNCHANGED timer_vars

CreateEvidence(stage, claim, location) ==
  CreateEvidenceUpTo(MaxEvidence, stage, claim, location)

(***************************************************************************)
(* The caller records the outputs of the stage it is in                    *)
(* (machine.stage_outputs[stage] = StageOutput(...)), and writes evidence  *)
(* files (evidence_path.write_text).                                       *)
(***************************************************************************)
RecordOutputs(outputs) ==
  /\ stage_outputs[current_stage] # outputs
  /\ stage_outputs' = [stage_outputs EXCEPT ![current_stage] = outputs]
  /\ UNCHANGED <<last, workflow_id, current_stage, completed_stages, todos, evidence,
                 retry_counts, user_objective, state_file, gate_logs, files, readiness,
                 restarts>>
  /\ UNCHANGED timer_vars

WriteEvidenceFile(path) ==
  /\ path \notin files
  /\ files' = files \cup {path}
  /\ UNCHANGED <<last, workflow_id, current_stage, completed_stages, stage_outputs, todos,
                 evidence, retry_counts, user_objective, state_file, gate_logs, readiness,
                 restarts>>
  /\ UNCHANGED timer_vars

\* machine.user_objective = objective (WorkflowOrchestrator.create_plan, tests)
SetObjective(objective) ==
  /\ user_objective' = objective
  /\ UNCHANGED <<last, workflow_id, current_stage, completed_stages, stage_outputs, todos,
                 evidence, retry_counts, state_file, gate_logs, files, readiness,
                 restarts>>
  /\ UNCHANGED timer_vars

(***************************************************************************)
(* WorkflowMachine._save_state called by itself (WorkflowOrchestrator.stop)*)
(* and _load_state on a freshly constructed machine (resume): the machine  *)
(* is WorkflowMachine(base_path=...), recorded in last.machine.            *)
(***************************************************************************)
SaveState ==
  /\ UNCHANGED <<workflow_id, current_stage, completed_stages, stage_outputs, todos,
                 evidence, retry_counts, user_objective, gate_logs, files, readiness,
                 restarts>>
  /\ state_file' = <<CurrentDocument'>>
  /\ last' = Call("save", current_stage, TRUE, NoGate, FALSE)
  /\ UNCHANGED timer_vars

\* the assignments of _load_state, in their order; start_time is no field of
\* the model's machine
LoadOrder ==
  <<"workflow_id", "current_stage", "completed_stages", "todos", "evidence",
    "start_time", "retry_counts", "user_objective">>

\* the member names of Stage
StageNameSet == {StageName(s) : s \in Stage}

\* state[f] raises KeyError, or Stage[name] does
FieldRaises(doc, f) ==
  \/ f \notin DOMAIN doc
  \/ f = "current_stage" /\ doc[f] \notin StageNameSet
  \/ f = "completed_stages" /\ \E i \in 1..Len(doc[f]) : doc[f][i] \notin StageNameSet
  \/ f = "retry_counts" /\ \E n \in DOMAIN doc[f] : n \notin StageNameSet

\* position in LoadOrder of the first assignment that raises, 0 for none
FirstRaising(doc) ==
  IF \E i \in 1..Len(LoadOrder) : FieldRaises(doc, LoadOrder[i])
  THEN CHOOSE i \in 1..Len(LoadOrder) :
         /\ FieldRaises(doc, LoadOrder[i])
         /\ \A j \in 1..(i - 1) : ~FieldRaises(doc, LoadOrder[j])
  ELSE 0

\* the value one assignment of _load_state gives a field
LoadedField(doc, f) ==
  CASE f = "current_stage" -> StageByName(doc[f])
    [] f = "completed_stages" -> StagesOf(doc[f])
    [] f = "retry_counts" -> RetryByStage(doc[f])
    [] OTHER -> doc[f]

\* the fields of machine m after the assignments before position k
PartlyLoaded(m, doc, k) ==
  [f \in DOMAIN m |->
     IF \E i \in 1..(k - 1) : LoadOrder[i] = f THEN LoadedField(doc, f) ELSE m[f]]

\* _load_state on machine m with the document in the file: json.load raises
\* on a document that is no JSON, an assignment raises on a missing field or
\* an unknown stage name; "except Exception" logs and returns False
load_state(m, doc) ==
  IF doc = TruncatedDocument THEN [ok |-> FALSE, raised |-> FALSE, machine |-> m]
  ELSE IF FirstRaising(doc) = 0
  THEN [ok |-> TRUE, raised |-> FALSE, machine |-> LoadedMachine(doc)]
  ELSE [ok |-> FALSE, raised |-> FALSE,
        machine |-> PartlyLoaded(m, doc, FirstRaising(doc))]

LoadState ==
  /\ IF state_file = <<>>
     THEN last' = Call("load", current_stage, FALSE, NoGate, FALSE)
     ELSE LET r == load_state(NewMachine(GENERATED_ID), state_file[1])
          IN last' = [Call("load", current_stage, r.ok, NoGate, r.raised)
                        EXCEPT !.machine = r.machine]
  /\ UNCHANGED <<workflow_id, current_stage, completed_stages, stage_outputs, todos,
                 evidence, retry_counts, user_objective, state_file, gate_logs, files,
                 readiness, restarts>>
  /\ UNCHANGED timer_vars

(***************************************************************************)
(* StartupValidator.run_all_checks.  The scheduler, memory, skills,        *)
(* environment and credentials checks always return True; the MCP check    *)
(* fails when the remote gateway does not answer, create_workflow_dir      *)
(* fails when the directories cannot be made.                              *)
(***************************************************************************)
CheckNames ==
  <<"MCP Servers", "Scheduler", "Memory", "Skills", "Environment", "Credentials",
    "Workflow Dir">>

run_all_checks(mcp_ok, dir_ok) ==
  LET passed == [name \in {CheckNames[i] : i \in 1..Len(CheckNames)} |->
                   CASE name = "MCP Servers" -> mcp_ok
                     [] name = "Workflow Dir" -> dir_ok
                     [] OTHER -> TRUE]
      scheduler_active == TRUE
      memory_ok == TRUE
      workflow_dir == dir_ok
      critical_passed == scheduler_active /\ memory_ok /\ workflow_dir
  IN [status |-> IF critical_passed THEN "PASS" ELSE "FAIL",
      failed |-> {name \in DOMAIN passed : ~passed[name]}]

RunAllChecks(mcp_ok, dir_ok) ==
  /\ readiness' = run_all_checks(mcp_ok, dir_ok)
  /\ last' = Call("run_all_checks", current_stage,
                  readiness'.status = "PASS", NoGate, FALSE)
  /\ UNCHANGED <<workflow_id, current_stage, completed_stages, stage_outputs, todos,
                 evidence, retry_counts, user_objective, state_file, gate_logs, files,
                 restarts>>
  /\ UNCHANGED timer_vars

(***************************************************************************)
(* WorkflowOrchestrator.startup: runs the validator, and only on PASS      *)
(* constructs the WorkflowMachine (with the orchestrator's workflow id and *)
(* base path) and calls its startup().  It is the call that creates the    *)
(* machine, so it is taken while the machine is as constructed.            *)
(***************************************************************************)
OrchestratorStartup(mcp_ok, dir_ok) ==
  LET result == run_all_checks(mcp_ok, dir_ok)
      m == NewMachine(WORKFLOW_ID)
  IN
  /\ ThisMachine = NewMachine(WORKFLOW_ID) /\ state_file = <<>>
  /\ readiness' = result
  /\ IF result.status # "PASS"
     THEN /\ last' = Call("orchestrator_startup", current_stage, FALSE,
                          NoGate, FALSE)
          /\ UNCHANGED <<machine_vars, state_file, restarts>>
     ELSE /\ workflow_id' = m.workflow_id
          /\ current_stage' = PLAN
          /\ completed_stages' = m.completed_stages
          /\ stage_outputs' = [s \in Stage |-> <<>>]
          /\ todos' = m.todos
          /\ evidence' = m.evidence
          /\ retry_counts' = m.retry_counts
          /\ user_objective' = m.user_objective
          /\ restarts' = restarts
          /\ state_file' = <<CurrentDocument'>>
          /\ last' = Call("orchestrator_startup", current_stage, TRUE, NoGate, FALSE)
  /\ UNCHANGED <<gate_logs, files>>
  /\ UNCHANGED timer_vars

(***************************************************************************)
(* Inputs of the operations.                                               *)
(***************************************************************************)
Priorities == {"high", "urgent"}
TodoKwargs == {EmptyDict}
Contents == {"Test"}
Objectives == {"Test objective"}
Locations == {""}

\* the controller's stage operations and the caller's recording of outputs
Next ==
  \/ \E to_stage \in Stage : Transition(to_stage)
  \/ Startup
  \/ \E s \in Stage : \E outs \in OutputChoices(s) : s = current_stage /\ RecordOutputs(outs)
  \/ \E path \in EvidencePaths : WriteEvidenceFile(path)

Spec == Init /\ [][Next]_vars

\* the readiness check and the ways out of STARTUP
NextReadiness ==
  \/ \E mcp_ok \in BOOLEAN, dir_ok \in BOOLEAN : RunAllChecks(mcp_ok, dir_ok)
  \/ \E mcp_ok \in BOOLEAN, dir_ok \in BOOLEAN : OrchestratorStartup(mcp_ok, dir_ok)
  \/ \E to_stage \in Stage : Transition(to_stage)
  \/ Startup

SpecReadiness == Init /\ [][NextReadiness]_vars

\* the controller's mutating operations, save and resume; no evidence file is
\* written here, so the gates of the working stages pass in Spec only
NextPersist ==
  \/ \E to_stage \in Stage : Transition(to_stage)
  \/ \E c \in Contents, p \in Priorities, kw \in TodoKwargs : CreateTodo(c, p, kw)
  \/ \E st \in StageArgs, c \in Contents, loc \in Locations : CreateEvidence(st, c, loc)
  \/ \E s \in Stage : \E outs \in OutputChoices(s) : s = current_stage /\ RecordOutputs(outs)
  \/ \E objective \in Objectives : SetObjective(objective)
  \/ SaveState
  \/ LoadState

SpecPersist == Init /\ [][NextPersist]_vars

(***************************************************************************)
(* hooks/reprompt_timer.py: RepromptTimer.  The orchestrator constructs it  *)
(* with workflow_dir = the machine's base_path, so state/current.json is    *)
(* state_file and logs/ is the directory gate_logs stands for.              *)
(***************************************************************************)
MaxChecks == 4

\* None as a stage
NoStage == 0

\* _get_current_stage: None when state/current.json is absent, and None when
\* json.load raises, which the function catches
get_current_stage ==
  IF state_file = <<>> THEN NoStage
  ELSE IF state_file[1] = TruncatedDocument THEN NoStage
  ELSE StageByName(state_file[1].current_stage)

\* _get_stage_outputs: the list in <stage>_output.json; todo/todos.json and
\* evidence/*.json are written by nothing in the repository and are absent
get_stage_outputs(stage) == output_files[stage]

\* the name part of state/retry_<stage>.txt
RetryFileName(stage) == Lower(StageName(stage))

\* _get_retry_count
get_retry_count(stage) == MapGet(retry_files, RetryFileName(stage))

\* _increment_retry
increment_retry(stage) ==
  MapSet(retry_files, RetryFileName(stage), get_retry_count(stage) + 1)

\* RepromptTimer._quality_gate: the controller's loops without the evidence
\* file check and without the log
timer_quality_gate(stage, outputs, retry) ==
  LET Result(stage_name, valid, checked, errors) ==
        [stage |-> stage_name,
         valid |-> valid,
         checked |-> checked,
         errors |-> errors,
         action |-> DetermineAction(valid, Len(errors), retry),
         retry |-> retry,
         timestamp |-> NOW]
      Missing(stage_name, vo, missing) ==
        Result(stage_name, vo.valid /\ Len(missing) = 0, vo.checked,
               vo.errors \o missing)
      Required(stage_name, vo) ==
        Missing(stage_name, vo, MissingRequired(QUALITY_GATES(stage_name), vo.checked))
  IN Required(GateStageName(stage), ValidateOutputs(outputs))

\* the "minimal check result" of check() when the stage has no outputs
NoOutputsResult(stage) ==
  [stage |-> StageName(stage),
   valid |-> FALSE,
   checked |-> <<>>,
   errors |-> <<"No outputs found for stage">>,
   action |-> REVISE,
   retry |-> get_retry_count(stage),
   timestamp |-> NOW]

\* the name part of logs/gate_<stage>_<check_count>.json; the controller's
\* logs/gate_<stage>.json has the name part Lower(stage_name)
\* variant: the scheduler writes under the controller's name
TimerLogNamePlain(stage, n) == Lower(StageName(stage))

TimerLogName(stage, n) == Lower(StageName(stage)) \o "_" \o ToString(n)

\* the name part of logs/reprompt_<stage>_<check_count>.md
RepromptName(stage, n) == Lower(StageName(stage)) \o "_" \o ToString(n)

\* variant: the terminal stages are evaluated
UngatedBeforeWork == {NoStage, STARTUP}

\* the stages check() returns None for
Ungated == {NoStage, STARTUP, COMPLETE, FAILED}

\* the outputs an agent leaves in <stage>_output.json: none, a todo with 16
\* fields missing, a valid set, a number
TimerOutputChoices(stage) ==
  {<<>>, <<BrokenTodo>>, GoodOutputs(stage), <<VInt(5)>>}

\* an agent writes <stage>_output.json for the stage the machine is in
WriteOutputFile(outs) ==
  /\ current_stage \notin Ungated
  /\ output_files[current_stage] # outs
  /\ output_files' = [output_files EXCEPT ![current_stage] = outs]
  /\ UNCHANGED <<machine_vars, state_file, gate_logs, files, readiness, restarts,
                 last, timer, retry_files, reprompts>>

\* the thread is back in stop_event.wait after its check()
ThreadWaits(t) == [t EXCEPT !.thread = "waiting", !.wake_at = t.now + Interval]

\* a caller outside the thread has its check() back
CallerReturns(t) == [t EXCEPT !.manual = "idle"]

\* a replaced thread is back in stop_event.wait after its check()
ReplacedWaits(t) == [t EXCEPT !.replaced = "waiting"]

\* check(), called by the background thread ("thread"), by a thread start()
\* has replaced ("replaced") or by a caller outside them ("manual");
\* callback_raises says whether on_gate_fail raises when it is called
CheckCall(caller, callback_raises) ==
  LET n == timer.check_count + 1
      Back(t) == CASE caller = "thread" -> ThreadWaits([t EXCEPT !.check_count = n])
                   [] caller = "replaced" -> ReplacedWaits([t EXCEPT !.check_count = n])
                   [] OTHER -> CallerReturns([t EXCEPT !.check_count = n])
      Thrown(stage, result) ==
        /\ timer' = Back([timer EXCEPT
                      !.last_result = result, !.returned = NoGate, !.raised = TRUE,
                      !.fail_count = @ + 1, !.callbacks = @ + 1,
                      !.callback_saw_log = TimerLogName(stage, n) \in DOMAIN gate_logs])
        /\ reprompts' = reprompts \cup {RepromptName(stage, n)}
        /\ UNCHANGED <<gate_logs, retry_files>>
      Run(stage, result) ==
        IF callback_raises /\ result.action # PROCEED THEN Thrown(stage, result)
        ELSE
        /\ timer' = Back([timer EXCEPT
                      !.last_result = result, !.returned = result, !.raised = FALSE,
                      !.fail_count = IF result.action # PROCEED THEN @ + 1 ELSE @,
                      !.callbacks = IF result.action # PROCEED THEN @ + 1 ELSE @,
                      !.callback_saw_log =
                         IF result.action # PROCEED
                         THEN TimerLogName(stage, n) \in DOMAIN gate_logs ELSE @])
        /\ reprompts' = IF result.action # PROCEED
                        THEN reprompts \cup {RepromptName(stage, n)} ELSE reprompts
        /\ retry_files' = IF result.action # PROCEED
                          THEN increment_retry(stage) ELSE retry_files
        /\ gate_logs' = MapSet(gate_logs, TimerLogName(stage, n), result)
      Check(stage) ==
        IF stage \in Ungated
        THEN /\ timer' = Back([timer EXCEPT !.returned = NoGate, !.raised = FALSE])
             /\ UNCHANGED <<gate_logs, retry_files, reprompts>>
        ELSE IF get_stage_outputs(stage) = <<>>
        THEN /\ timer' = Back([timer EXCEPT !.last_result = NoOutputsResult(stage),
                                            !.returned = NoOutputsResult(stage),
                                            !.raised = FALSE])
             /\ UNCHANGED <<gate_logs, retry_files, reprompts>>
        ELSE IF ValidateOutputsRaises(get_stage_outputs(stage))
        THEN /\ timer' = Back([timer EXCEPT !.returned = NoGate, !.raised = TRUE])
             /\ UNCHANGED <<gate_logs, retry_files, reprompts>>
        ELSE Run(stage, timer_quality_gate(stage, get_stage_outputs(stage),
                                           get_retry_count(stage)))
  IN
  /\ UNCHANGED <<machine_vars, state_file, files, readiness, restarts, last,
                 output_files>>
  /\ Check(get_current_stage)

\* the loop body of _timer_loop: check() called by the background thread
TimerCheck ==
  /\ timer.thread = "checking"
  /\ CheckCall("thread", FALSE)

\* _timer_loop: the loop test and stop_event.wait(timeout=interval): the
\* thread ends when the event is set, else the interval elapses and it calls
\* check()
TimerWake ==
  /\ timer.thread = "waiting"
  /\ IF timer.stop_event
     THEN timer' = [timer EXCEPT !.thread = "done"]
     ELSE /\ timer.check_count < MaxChecks
          /\ timer' = [timer EXCEPT !.thread = "checking"]
  /\ UNCHANGED <<machine_vars, state_file, gate_logs, files, readiness, restarts,
                 last, output_files, retry_files, reprompts>>

\* start(); the caller starts again only when the previous thread has ended
TimerStart ==
  /\ ~timer.active
  /\ timer.thread \in {"none", "done"}
  /\ ~timer.joining
  /\ timer' = [timer EXCEPT !.active = TRUE, !.stop_event = FALSE,
                            !.thread = "waiting", !.stopped = FALSE,
                            !.wake_at = timer.now + Interval]
  /\ UNCHANGED <<machine_vars, state_file, gate_logs, files, readiness, restarts,
                 last, output_files, retry_files, reprompts>>

\* stop() up to the join: the fields after "if not self.active: return" and
\* the two assignments
\* variant: without the early return
StoppedTimerNoGuard(t) == [t EXCEPT !.active = FALSE, !.stop_event = TRUE]

StoppedTimer(t) ==
  IF ~t.active THEN t ELSE [t EXCEPT !.active = FALSE, !.stop_event = TRUE]

\* stop() is called: it returns at once on an inactive timer, else it sets
\* the event and joins the thread
TimerStop ==
  /\ ~timer.joining
  /\ timer' = IF ~timer.active
              THEN [StoppedTimer(timer) EXCEPT !.stopped = TRUE]
              ELSE [StoppedTimer(timer) EXCEPT !.joining = TRUE]
  /\ UNCHANGED <<machine_vars, state_file, gate_logs, files, readiness, restarts,
                 last, output_files, retry_files, reprompts>>

\* timer_thread.join(timeout=5) returns: the thread has ended, or five seconds
\* have passed while it is still inside check()
JoinReturns(thread) == thread \in {"done", "checking"}

TimerStopReturn ==
  /\ timer.joining
  /\ JoinReturns(timer.thread)
  /\ timer' = [timer EXCEPT !.joining = FALSE, !.stopped = TRUE]
  /\ UNCHANGED <<machine_vars, state_file, gate_logs, files, readiness, restarts,
                 last, output_files, retry_files, reprompts>>

\* the controller and the scheduler side by side; the caller of stop() makes
\* no transition while it is inside stop()
NextTimer ==
  \/ \E to_stage \in Stage : ~timer.joining /\ Transition(to_stage)
  \/ \E outs \in TimerOutputChoices(current_stage) : WriteOutputFile(outs)
  \/ TimerStart
  \/ TimerWake
  \/ TimerCheck
  \/ TimerStop
  \/ TimerStopReturn

SpecTimer == Init /\ [][NextTimer]_vars

(***************************************************************************)
(* check() called from outside the background thread (on_compaction_event,  *)
(* the --test run of workflow_main, a manual check) while the thread runs,  *)
(* and a timer whose failure callback may raise.                            *)
(***************************************************************************)
\* a caller outside the thread enters check()
ManualCheckBegin ==
  /\ timer.manual = "idle"
  /\ timer.check_count < MaxChecks
  /\ timer' = [timer EXCEPT !.manual = "checking"]
  /\ UNCHANGED <<machine_vars, state_file, gate_logs, files, readiness, restarts,
                 last, output_files, retry_files, reprompts>>

\* and leaves it
ManualCheckEnd ==
  /\ timer.manual = "checking"
  /\ CheckCall("manual", FALSE)

\* the loop body of _timer_loop when on_gate_fail raises: the exception
\* leaves check() and is caught by "except Exception"
TimerCheckThrowing ==
  /\ timer.thread = "checking"
  /\ CheckCall("thread", TRUE)

\* main() of reprompt_timer.py, --check and the default: the exit code after
\* result = timer.check(); an exception that leaves check() ends the process
\* with code 1
main_exit_code(t) ==
  IF t.raised THEN 1
  ELSE IF t.returned # NoGate
  THEN (IF t.returned.action = PROCEED THEN 0 ELSE 1)
  ELSE 0

\* the running timer and the callers of check() outside its thread
NextTicks ==
  \/ \E to_stage \in Stage : Transition(to_stage)
  \/ \E outs \in TimerOutputChoices(current_stage) : WriteOutputFile(outs)
  \/ TimerStart
  \/ TimerWake
  \/ TimerCheck
  \/ ManualCheckBegin
  \/ ManualCheckEnd

SpecTicks == Init /\ [][NextTicks]_vars

\* the loop body of _timer_loop when the log file cannot be written: the
\* first _log of check() raises, "except Exception" catches it and calls
\* _log itself, which raises again, and the thread ends with the exception
ThreadDies(t) == [t EXCEPT !.thread = "done"]

TimerCheckLogFails ==
  /\ timer.thread = "checking"
  /\ timer' = ThreadDies([timer EXCEPT !.check_count = @ + 1,
                                       !.returned = NoGate, !.raised = TRUE])
  /\ UNCHANGED <<machine_vars, state_file, gate_logs, files, readiness, restarts,
                 last, output_files, retry_files, reprompts>>

\* the timer with a failure callback that may raise and a log file that may
\* be unwritable
NextLoop ==
  \/ \E to_stage \in Stage : ~timer.joining /\ Transition(to_stage)
  \/ \E outs \in TimerOutputChoices(current_stage) : WriteOutputFile(outs)
  \/ TimerStart
  \/ TimerWake
  \/ TimerCheck
  \/ TimerCheckThrowing
  \/ TimerCheckLogFails
  \/ TimerStop
  \/ TimerStopReturn

SpecLoop == Init /\ [][NextLoop]_vars

(***************************************************************************)
(* _save_state as the scheduler's thread sees it: open(state_path, "w")    *)
(* empties the file, json.dump fills it afterwards, and a tick may read    *)
(* the file in between.  The controller's thread is inside _save_state     *)
(* from the one step to the other.                                         *)
(***************************************************************************)
Saving == state_file = <<TruncatedDocument>>

SaveStateOpen ==
  /\ ~Saving
  /\ state_file' = <<TruncatedDocument>>
  /\ UNCHANGED <<machine_vars, gate_logs, files, readiness, restarts, last>>
  /\ UNCHANGED timer_vars

SaveStateDump ==
  /\ Saving
  /\ state_file' = <<CurrentDocument>>
  /\ last' = Call("save", current_stage, TRUE, NoGate, FALSE)
  /\ UNCHANGED <<machine_vars, gate_logs, files, readiness, restarts>>
  /\ UNCHANGED timer_vars

NextTorn ==
  \/ \E to_stage \in Stage : ~Saving /\ Transition(to_stage)
  \/ \E outs \in TimerOutputChoices(current_stage) : WriteOutputFile(outs)
  \/ SaveStateOpen
  \/ SaveStateDump
  \/ TimerStart
  \/ TimerWake
  \/ TimerCheck

SpecTorn == Init /\ [][NextTorn]_vars

(***************************************************************************)
(* The timer against the clock: the wait of _timer_loop ends when its      *)
(* timeout is over, reset() and status() work on last_check.               *)
(***************************************************************************)
\* time passes; a waiting thread wakes when its timeout ends
ClockTick ==
  /\ timer.now < MaxClock
  /\ timer.thread = "waiting" => timer.now < timer.wake_at
  /\ timer' = [timer EXCEPT !.now = @ + 1]
  /\ UNCHANGED <<machine_vars, state_file, gate_logs, files, readiness, restarts,
                 last, output_files, retry_files, reprompts>>

\* _timer_loop: stop_event.wait(timeout=interval_seconds) returns, with True
\* when the event is set and with False when the timeout is over
TimedWake ==
  /\ timer.thread = "waiting"
  /\ IF timer.stop_event
     THEN timer' = [timer EXCEPT !.thread = "done"]
     ELSE /\ timer.now >= timer.wake_at
          /\ timer.check_count < MaxChecks
          /\ timer' = [timer EXCEPT !.thread = "checking"]
  /\ UNCHANGED <<machine_vars, state_file, gate_logs, files, readiness, restarts,
                 last, output_files, retry_files, reprompts>>

\* reset()
TimerReset ==
  /\ timer' = [timer EXCEPT !.last_check = timer.now]
  /\ UNCHANGED <<machine_vars, state_file, gate_logs, files, readiness, restarts,
                 last, output_files, retry_files, reprompts>>

\* status()["next_check_in_seconds"]
next_check_in_seconds(t) ==
  LET elapsed == t.now - t.last_check
      remaining == Interval - elapsed
  IN IF remaining > 0 THEN remaining ELSE 0

NextClock ==
  \/ ClockTick
  \/ TimerStart
  \/ TimedWake
  \/ TimerCheck
  \/ TimerReset
  \/ TimerStop
  \/ TimerStopReturn

SpecClock == Init /\ [][NextClock]_vars

(***************************************************************************)
(* _load_state on a document that _save_state did not leave whole: cut     *)
(* short, a field missing, a stage name unknown to Stage.                   *)
(***************************************************************************)
DamageKinds == {"unparsable", "missing_field", "unknown_stage"}

Damaged(doc, kind) ==
  CASE kind = "unparsable" -> TruncatedDocument
    [] kind = "missing_field" ->
         [f \in DOMAIN doc \ {"completed_stages"} |-> doc[f]]
    [] kind = "unknown_stage" -> [doc EXCEPT !.current_stage = "BOGUS"]

Whole(doc) == doc # TruncatedDocument /\ FirstRaising(doc) = 0

DamageDocument(kind) ==
  /\ state_file # <<>> /\ Whole(state_file[1])
  /\ state_file' = <<Damaged(state_file[1], kind)>>
  /\ UNCHANGED <<machine_vars, gate_logs, files, readiness, restarts, last>>
  /\ UNCHANGED timer_vars

NextLoad ==
  \/ \E to_stage \in Stage : Transition(to_stage)
  \/ \E c \in Contents, p \in Priorities, kw \in TodoKwargs : CreateTodo(c, p, kw)
  \/ \E objective \in Objectives : SetObjective(objective)
  \/ SaveState
  \/ \E kind \in DamageKinds : DamageDocument(kind)
  \/ LoadState

SpecLoad == Init /\ [][NextLoad]_vars

(***************************************************************************)
(* create_evidence called several times, for several stages, while the     *)
(* workflow moves.                                                         *)
(***************************************************************************)
MaxEvidenceSeq == 3

\* stage names create_evidence is called with
EvidenceStageArgs == {"PLAN", "REVIEW", "REVIEW_POST"}

NextEvidence ==
  \/ \E to_stage \in Stage : Transition(to_stage)
  \/ \E st \in EvidenceStageArgs, c \in Contents, loc \in Locations :
       CreateEvidenceUpTo(MaxEvidenceSeq, st, c, loc)

SpecEvidence == Init /\ [][NextEvidence]_vars

(***************************************************************************)
(* start() after a stop() whose join timed out: the thread is still inside  *)
(* check(), start() clears the event and puts a new thread in timer_thread. *)
(***************************************************************************)
TimerStartOverRunning ==
  /\ ~timer.active
  /\ ~timer.joining
  /\ timer.thread = "checking"
  /\ timer.replaced = "none"
  /\ timer' = [timer EXCEPT !.active = TRUE, !.stop_event = FALSE,
                            !.thread = "waiting", !.stopped = FALSE,
                            !.wake_at = timer.now + Interval,
                            !.replaced = "checking"]
  /\ UNCHANGED <<machine_vars, state_file, gate_logs, files, readiness, restarts,
                 last, output_files, retry_files, reprompts>>

\* the replaced thread ends its check() and goes on with its loop
ReplacedCheck ==
  /\ timer.replaced = "checking"
  /\ CheckCall("replaced", FALSE)

ReplacedWake ==
  /\ timer.replaced = "waiting"
  /\ IF timer.stop_event
     THEN timer' = [timer EXCEPT !.replaced = "none"]
     ELSE /\ timer.check_count < MaxChecks
          /\ timer' = [timer EXCEPT !.replaced = "checking"]
  /\ UNCHANGED <<machine_vars, state_file, gate_logs, files, readiness, restarts,
                 last, output_files, retry_files, reprompts>>

NextRestart ==
  \/ \E to_stage \in Stage : ~timer.joining /\ Transition(to_stage)
  \/ \E outs \in TimerOutputChoices(current_stage) : WriteOutputFile(outs)
  \/ TimerStart
  \/ TimerStartOverRunning
  \/ TimerWake
  \/ TimerCheck
  \/ ReplacedWake
  \/ ReplacedCheck
  \/ TimerStop
  \/ TimerStopReturn

SpecRestart == Init /\ [][NextRestart]_vars

(***************************************************************************)
(* A clean run: the caller works through the stages in the order of        *)
(* class Stage, records for each stage outputs that pass its gate, writes  *)
(* the evidence file they name, and then asks for the next stage.          *)
(***************************************************************************)
\* the member that follows a stage in class Stage(Enum)
NextMember(stage) == stage + 1

\* machine.stage_outputs[stage] = StageOutput(stage, outputs, ...) with the
\* outputs of the stage the workflow is in
RecordGood ==
  /\ current_stage \notin {STARTUP, COMPLETE, FAILED}
  /\ RecordOutputs(GoodOutputs(current_stage))

\* the work of the current stage is recorded and its evidence is on disk
StageWorkDone ==
  /\ stage_outputs[current_stage] = GoodOutputs(current_stage)
  /\ EvidencePaths \subseteq files

\* machine.transition(next stage), called once the work of the stage is done
RequestSuccessor ==
  /\ current_stage \in STARTUP..LEARN
  /\ current_stage # STARTUP => StageWorkDone
  /\ Transition(NextMember(current_stage))

NextProgress ==
  \/ RecordGood
  \/ \E path \in EvidencePaths : WriteEvidenceFile(path)
  \/ RequestSuccessor
  \/ \E c \in Contents, p \in Priorities, kw \in TodoKwargs : CreateTodo(c, p, kw)
  \/ \E st \in StageArgs, c \in Contents, loc \in Locations : CreateEvidence(st, c, loc)
  \/ \E objective \in Objectives : SetObjective(objective)

\* the states in which the caller's request is a step of the run: this is
\* ENABLED <<RequestSuccessor>>_vars, since transition() returns from every
\* state and every call of it leaves a different record in last
RequestPossible ==
  /\ current_stage \in STARTUP..LEARN
  /\ current_stage # STARTUP => StageWorkDone
  /\ TransitionWithinBounds

\* the caller keeps working: a step of the run that stays possible is taken.
\* The last conjunct is WF_vars(RequestSuccessor) with its enabling
\* condition written as the state predicate RequestPossible.
SpecProgress ==
  /\ Init /\ [][NextProgress]_vars
  /\ WF_vars(RecordGood)
  /\ WF_vars(\E path \in EvidencePaths : WriteEvidenceFile(path))
  /\ ([]<>~RequestPossible \/ []<><<RequestSuccessor>>_vars)

(***************************************************************************)
(* The two evaluators applied to drawn inputs: a machine that stands in any *)
(* stage past STARTUP with outputs recorded for it and a retry count, and a *)
(* timer whose thread is about to call check() on the same outputs.         *)
(***************************************************************************)
\* SampleTodo without the last n fields of metadata
TodoLacking(n) ==
  LET fields == SCHEMAS["todo"].metadata_required
      dropped == {fields[i] : i \in (Len(fields) - n + 1)..Len(fields)}
      metadata == SampleTodo.d["metadata"].d
  IN VDict([SampleTodo.d EXCEPT
              !["metadata"] = VDict([k \in DOMAIN metadata \ dropped |-> metadata[k]])])

\* outputs that are no records, or whose wrapper key or metadata holds a
\* value that is no record
MalformedOutputs ==
  {<<VInt(5)>>, <<VNone>>, <<VStr("abc")>>, <<VStr("evidence")>>,
   <<VDict([evidence |-> VStr("x")])>>, <<VDict([evidence |-> VNone])>>,
   <<VDict([review_gate |-> VStr("x")])>>, <<VDict([skill |-> VInt(3)])>>,
   <<VDict([metadata |-> VNone])>>, <<VDict([metadata |-> VInt(5)])>>,
   <<VDict([metadata |-> VStr("x")])>>, <<VDict([metadata |-> VStr("objective")])>>,
   <<VDict([review_gate |-> VDict([metadata |-> VStr("x")])])>>,
   <<VDict([foo |-> VInt(1)])>>}

\* the first two todos create_todo builds
TwoTodos ==
  <<SampleTodo, BuildTodo(1, "Test", "high", EmptyDict, PLAN, BASE_PATH)>>

\* the outputs submitted for a stage
GateInputs(stage) ==
  {<<>>, <<SampleTodo>>, GoodOutputs(stage), <<BrokenTodo>>,
   <<TodoLacking(9)>>, <<TodoLacking(10)>>, TwoTodos} \cup MalformedOutputs

\* the stages completed before a stage is reached in order; FAILED is
\* entered from PLAN by a STOP
CompletedBefore(stage) ==
  IF stage = FAILED THEN <<STARTUP>> ELSE [i \in 1..(stage - 1) |-> i]

InitGate ==
  \E stage \in Stage \ {STARTUP} : \E outputs \in GateInputs(stage) :
  \E retry \in 0..MaxRetryCount : \E existing \in {{}, EvidencePaths} :
    /\ workflow_id = WORKFLOW_ID
    /\ current_stage = stage
    /\ completed_stages = CompletedBefore(stage)
    /\ stage_outputs = [s \in Stage |-> IF s = stage THEN outputs ELSE <<>>]
    /\ todos = <<>>
    /\ evidence = <<>>
    /\ retry_counts = IF retry = 0 THEN EmptyMap ELSE MapSet(EmptyMap, stage, retry)
    /\ user_objective = ""
    /\ state_file = <<CurrentDocument>>
    /\ gate_logs = EmptyMap
    /\ files = existing
    /\ readiness = NoReadiness
    /\ restarts = 0
    /\ last = Call("load", stage, TRUE, NoGate, FALSE)
    /\ timer = [NewTimer EXCEPT !.active = TRUE, !.thread = "checking"]
    /\ output_files = [s \in Stage |-> IF s = stage THEN outputs ELSE <<>>]
    /\ retry_files = IF retry = 0 THEN EmptyMap
                     ELSE MapSet(EmptyMap, RetryFileName(stage), retry)
    /\ reprompts = {}

\* quality_gate(current_stage, outputs, retry) called as transition() calls
\* it, on the outputs recorded for the stage and the stage's retry count
Evaluate ==
  LET Run(g) ==
        /\ gate_logs' = WriteGateLog(g)
        /\ last' = Call("quality_gate", current_stage, g.valid, g, FALSE)
  IN
  /\ IF quality_gate_raises(stage_outputs[current_stage])
     THEN /\ last' = Call("quality_gate", current_stage, FALSE, NoGate, TRUE)
          /\ UNCHANGED gate_logs
     ELSE Run(CurrentGate)
  /\ UNCHANGED <<machine_vars, state_file, files, readiness, restarts, timer_vars>>

NextGate ==
  \/ Evaluate
  \/ TimerCheck

SpecGate == InitGate /\ [][NextGate]_vars

(***************************************************************************)
(* Claims.                                                                 *)
(***************************************************************************)
\* the step is a call of transition, whatever its target
TransitionStep == \E to_stage \in Stage : Transition(to_stage)

NonTerminal(stage) == stage \notin {FAILED, COMPLETE}

\* position of a stage in the fixed order Startup, Plan, ..., Learn
Position(stage) == stage - STARTUP

\* C1: from a non-terminal stage at index i, a transition to a target other
\* than Failed/Complete whose index is not i+1 returns failure and leaves the
\* current stage unchanged.
C1_OrderEnforced ==
  [][\A to_stage \in Stage :
       (/\ NonTerminal(current_stage)
        /\ NonTerminal(to_stage)
        /\ Position(to_stage) # Position(current_stage) + 1
        /\ Transition(to_stage))
       => (~last'.ok /\ current_stage' = current_stage)]_vars

\* a transition request was rejected for stage order while in PLAN
C1_Witness ==
  /\ last.op = "transition" /\ ~last.ok /\ last.gate = NoGate
  /\ current_stage = PLAN

\* C2: Failed and Complete are absorbing: once the current stage is Failed or
\* Complete, no transition request, whatever its target, changes the current
\* stage or the completed-stage history.
C2_TerminalAbsorbing ==
  [][(~NonTerminal(current_stage) /\ TransitionStep)
       => (current_stage' = current_stage
           /\ completed_stages' = completed_stages)]_vars

\* C3: a transition attempted from a non-Startup stage returns success only
\* if the gate, run on that stage's recorded outputs with its current retry
\* count, has an empty error list and the action PROCEED; with any error the
\* transition is rejected.
C3_SuccessNeedsCleanGate ==
  [][(current_stage # STARTUP /\ TransitionStep)
       => /\ last'.ok => (CurrentGate.errors = <<>> /\ CurrentGate.action = PROCEED)
          /\ CurrentGate.errors # <<>> => ~last'.ok]_vars

\* PLAN was left with a gate that proceeded on its recorded outputs
C3_Witness ==
  /\ last.op = "transition" /\ last.ok /\ last.from = PLAN
  /\ last.gate.action = PROCEED /\ last.gate.errors = <<>>
  /\ last.gate.checked # <<>>
  /\ current_stage = REVIEW

\* C4: when the gate returns REVISE or ESCALATE on a transition attempt, the
\* call returns failure, the current stage and the history are unchanged, the
\* retry counter of the current stage is one greater than before, and no
\* other stage's counter changes.
C4_RetryIncrement ==
  [][(TransitionStep /\ last'.gate.action \in {REVISE, ESCALATE})
       => /\ ~last'.ok
          /\ current_stage' = current_stage
          /\ completed_stages' = completed_stages
          /\ MapGet(retry_counts', current_stage)
               = MapGet(retry_counts, current_stage) + 1
          /\ \A s \in Stage \ {current_stage} :
               MapGet(retry_counts', s) = MapGet(retry_counts, s)]_vars

\* an attempt after MAX_RETRY failures was escalated and counted
C4_Witness ==
  /\ last.op = "transition" /\ ~last.ok /\ last.gate.action = ESCALATE
  /\ MapGet(retry_counts, current_stage) = MAX_RETRY + 1

\* C5: when the gate returns STOP on a transition attempt, whatever the
\* target, the current stage becomes Failed, the persisted document records
\* Failed, the source stage is not appended to the history, and the call
\* returns failure.
C5_StopForcesFailed ==
  [][(TransitionStep /\ last'.gate.action = STOP)
       => /\ current_stage' = FAILED
          /\ state_file' # <<>>
          /\ state_file'[1].current_stage = "FAILED"
          /\ completed_stages' = completed_stages
          /\ ~last'.ok]_vars

\* a gate with more than ten errors stopped the workflow at PLAN
C5_Witness ==
  /\ last.op = "transition" /\ ~last.ok /\ last.gate.action = STOP
  /\ last.from = PLAN /\ Len(last.gate.errors) > STOP_ERRORS
  /\ current_stage = FAILED

\* C6: when a transition that passes the order check passes its gate (or
\* leaves Startup), the source stage is appended to the history exactly once,
\* the current stage becomes the target, the full state is persisted, the
\* call returns success, and no retry counter changes.
C6_SuccessEffects ==
  [][\A to_stage \in Stage :
       (/\ NonTerminal(current_stage)
        /\ (to_stage \in {FAILED, COMPLETE}
              \/ Position(to_stage) = Position(current_stage) + 1)
        /\ (current_stage = STARTUP \/ CurrentGate.action = PROCEED)
        /\ Transition(to_stage))
       => /\ completed_stages' = completed_stages \o <<current_stage>>
          /\ current_stage' = to_stage
          /\ state_file' = <<StateDocument(workflow_id', current_stage',
                                           completed_stages', todos', evidence',
                                           retry_counts', user_objective')>>
          /\ last'.ok
          /\ retry_counts' = retry_counts]_vars

\* REVIEW was left for DISRUPT and the document on disk has the new stage
C6_Witness ==
  /\ last.op = "transition" /\ last.ok /\ last.from = REVIEW
  /\ current_stage = DISRUPT
  /\ completed_stages # <<>>
  /\ completed_stages[Len(completed_stages)] = REVIEW
  /\ state_file # <<>> /\ state_file[1].current_stage = "DISRUPT"

\* want occurs in hist, in order, from position k on
RECURSIVE InOrder(_, _, _)
InOrder(want, hist, k) ==
  IF want = <<>> THEN TRUE
  ELSE IF k > Len(hist) THEN FALSE
  ELSE IF hist[k] = Head(want) THEN InOrder(Tail(want), hist, k + 1)
  ELSE InOrder(want, hist, k + 1)

EndsWithPlanTo(hist, stage) ==
  LET n == Position(stage)
  IN /\ Len(hist) >= n
     /\ \A k \in 1..n : hist[Len(hist) - n + k] = PLAN + (k - 1)

C8_ReadinessGuardsPlan ==
  [][(/\ current_stage = STARTUP
      /\ readiness.failed # {}
      /\ (Transition(PLAN) \/ Startup))
       => current_stage' = STARTUP]_vars

\* the fields the claim compares between a document and the machine
SameAsMemory(doc) ==
  /\ doc.current_stage = StageName(current_stage)
  /\ doc.completed_stages = [i \in 1..Len(completed_stages) |->
                               StageName(completed_stages[i])]
  /\ doc.todos = todos
  /\ doc.evidence = evidence
  /\ DOMAIN doc.retry_counts = {StageName(s) : s \in DOMAIN retry_counts}
  /\ \A s \in DOMAIN retry_counts : doc.retry_counts[StageName(s)] = retry_counts[s]

\* C9: after every mutating operation returns (createTodo, createEvidence, a
\* successful transition, a transition forced to Failed, a transition rejected
\* with a retry increment), the persisted document equals the in-memory state
\* in current stage, completed stages, todos, evidence and retry counts.
C9_PersistedEqualsMemory ==
  (\/ (last.op \in {"create_todo", "create_evidence"} /\ last.ok)
   \/ (last.op = "transition"
         /\ (last.ok \/ last.gate.action \in {STOP, REVISE, ESCALATE})))
    => (state_file # <<>> /\ SameAsMemory(state_file[1]))

\* C10: saving a reachable state and then loading it into a freshly
\* constructed controller reproduces the workflow id, current stage,
\* completed-stage list, todos, evidence and retry map.
C10_SaveLoadRoundTrip ==
  [][(last.op = "save" /\ LoadState)
       => /\ last'.ok
          /\ last'.machine.workflow_id = workflow_id
          /\ last'.machine.current_stage = current_stage
          /\ last'.machine.completed_stages = completed_stages
          /\ last'.machine.todos = todos
          /\ last'.machine.evidence = evidence
          /\ last'.machine.retry_counts = retry_counts]_vars

\* a state with history, a todo, evidence and a retry count was loaded back
C10_Witness ==
  /\ last.op = "load" /\ last.ok
  /\ state_file = <<CurrentDocument>>
  /\ last.machine = ThisMachine
  /\ completed_stages # <<>> /\ todos # <<>> /\ evidence # <<>>
  /\ DOMAIN retry_counts # {}

\* what transition(to_stage) returns and where it leaves a machine that is in
\* stage with the given recorded outputs and retry count: the return value,
\* the gate action ("none" when no gate ran) and the stage afterwards
TransitionOutcome(stage, outputs, retry, existing, to_stage) ==
  LET Outcome(g) ==
        IF OrderRejects(stage, to_stage)
        THEN [ok |-> FALSE, action |-> NoGate.action, stage |-> stage]
        ELSE IF stage = STARTUP
        THEN [ok |-> TRUE, action |-> NoGate.action, stage |-> to_stage]
        ELSE IF g.action = PROCEED
        THEN [ok |-> TRUE, action |-> g.action, stage |-> to_stage]
        ELSE [ok |-> FALSE, action |-> g.action,
              stage |-> IF g.action = STOP THEN StageOnStop(stage) ELSE stage]
  IN Outcome(quality_gate(stage, outputs, retry, existing))

\* the recorded outputs of a machine right after __init__ and _load_state:
\* stage_outputs is {} and the document does not hold it
RehydratedOutputs == <<>>

\* C11: a freshly constructed controller rehydrated from the persisted
\* document (here: a document that is up to date with the original) gives,
\* for every transition request, the same return value, the same gate action
\* and the same resulting stage as the original controller.
C11_RehydratedBehavesAlike ==
  (state_file # <<>> /\ state_file = <<CurrentDocument>>)
    => \A to_stage \in Stage :
         TransitionOutcome(current_stage, stage_outputs[current_stage],
                           MapGet(retry_counts, current_stage), files, to_stage)
         = TransitionOutcome(LoadedMachine(state_file[1]).current_stage,
                             RehydratedOutputs,
                             MapGet(LoadedMachine(state_file[1]).retry_counts,
                                    LoadedMachine(state_file[1]).current_stage),
                             files, to_stage)

\* C12: whenever outputs are found invalid in an evaluation made with a retry
\* count of MAX_RETRY or more, the action is ESCALATE, in the controller's
\* quality_gate and in the scheduler's check.
C12_EscalateAtMaxRetries ==
  /\ (last.gate # NoGate /\ ~last.gate.valid /\ last.gate.retry >= MAX_RETRY)
       => last.gate.action = ESCALATE
  /\ (timer.returned # NoGate /\ ~timer.returned.valid
        /\ timer.returned.retry >= MAX_RETRY)
       => timer.returned.action = ESCALATE

\* the action the claims expect of an invalid result below MAX_RETRY: STOP
\* above 10 errors, REVISE for 1 to 10
StopsOverTen(g) ==
  (g # NoGate /\ ~g.valid /\ g.retry < 3)
    => /\ Len(g.errors) > 10 => g.action = STOP
       /\ Len(g.errors) \in 1..10 => g.action = REVISE

\* C13: in every stage, an evaluation that finds the outputs invalid with a
\* retry count below MAX_RETRY yields STOP when it collected more than 10
\* errors and REVISE when it collected 1 to 10, in the controller's
\* quality_gate and in the scheduler's evaluation.
C13_StopOverTenErrors == StopsOverTen(last.gate) /\ StopsOverTen(timer.returned)

C13_Witness ==
  /\ last.op = "quality_gate"
  /\ Len(last.gate.errors) = 11 /\ last.gate.retry < 3 /\ last.gate.action = STOP
  /\ Len(timer.returned.errors) = 11 /\ timer.returned.retry < 3
  /\ timer.returned.action = STOP

\* C14: the controller's evaluator returns PROCEED only if every schema the
\* stage's gate requires was detected among the submitted outputs; for each
\* required schema not detected the result holds the error
\* "Missing required schema: <name>" and is invalid.
C14_RequiredSchemasDetected ==
  (last.op = "quality_gate" /\ ~last.raised)
    => \A i \in 1..Len(QUALITY_GATES(last.gate.stage)) :
         /\ last.gate.action = PROCEED
              => \E j \in 1..Len(stage_outputs[current_stage]) :
                   detect_schema(stage_outputs[current_stage][j])
                     = QUALITY_GATES(last.gate.stage)[i]
         /\ ~InSeq(QUALITY_GATES(last.gate.stage)[i], last.gate.checked)
              => /\ InSeq("Missing required schema: "
                            \o QUALITY_GATES(last.gate.stage)[i], last.gate.errors)
                 /\ ~last.gate.valid
                 /\ last.gate.action # PROCEED

C14_Witness ==
  /\ last.op = "quality_gate"
  /\ current_stage = PLAN
  /\ stage_outputs[PLAN] = <<SampleTodo>>
  /\ last.gate.retry = 0
  /\ last.gate.checked = <<"todo">>
  /\ InSeq("Missing required schema: evidence", last.gate.errors)
  /\ last.gate.action = REVISE

\* C15: the evaluator never raises: for any list of outputs, among them
\* records whose wrapper key or metadata holds a string, null or number and
\* outputs that are no records, quality_gate returns a GateResult, and the
\* schemas in checked are those detected in the outputs.
C15_EvaluatorNeverThrows ==
  last.op = "quality_gate"
    => /\ ~last.raised
       /\ last.gate # NoGate
       /\ Len(last.gate.checked) <= Len(stage_outputs[current_stage])

\* C16: gate-result logging is append-only: an evaluation, by the controller
\* or by a scheduler tick in any interleaving, adds a log entry of its own,
\* and no step changes or removes an entry written earlier.
C16_GateLogAppendOnly ==
  [][/\ \A name \in DOMAIN gate_logs :
          name \in DOMAIN gate_logs' /\ gate_logs'[name] = gate_logs[name]
     /\ (TransitionStep /\ last'.gate # NoGate)
          => DOMAIN gate_logs' # DOMAIN gate_logs
     /\ (TimerCheck /\ timer'.returned # NoGate)
          => DOMAIN gate_logs' # DOMAIN gate_logs]_vars

\* the name parts of the controller's logs/gate_<stage>.json
ControllerLogNames == {Lower(GateStageName(stage)) : stage \in Stage}

\* C17: a scheduler tick, whatever its outcome (pass, fail, no outputs, no
\* state, exception), leaves the controller's current stage, completed
\* stages, todos, evidence, the other fields of the machine, the persisted
\* state document and the controller's gate logs as they were; it writes
\* only gate logs of its own, reprompt documents and retry counters.
C17_TickLeavesControllerState ==
  [][TimerCheck
       => /\ UNCHANGED <<machine_vars, state_file, files, output_files>>
          /\ \A name \in DOMAIN gate_logs :
               name \in DOMAIN gate_logs' /\ gate_logs'[name] = gate_logs[name]
          /\ \A name \in ControllerLogNames :
               name \in DOMAIN gate_logs' => name \in DOMAIN gate_logs]_vars

C17_Witness ==
  /\ timer.check_count > 0
  /\ timer.returned.action = STOP
  /\ timer.fail_count > 0
  /\ "plan" \in DOMAIN gate_logs
  /\ "plan_1" \in DOMAIN gate_logs
  /\ gate_logs["plan"].action = REVISE
  /\ reprompts # {}
  /\ get_retry_count(PLAN) > 0

\* C18: a scheduler tick whose result has an action other than PROCEED writes
\* a gate log entry holding the result and a reprompt document and then calls
\* the failure callback exactly once; a tick whose action is PROCEED calls no
\* callback and writes no reprompt.
C18_FailingTickLogsAndNotifies ==
  [][(TimerCheck /\ timer'.returned # NoGate)
       => IF timer'.returned.action # PROCEED
          THEN /\ TimerLogName(get_current_stage, timer'.check_count)
                    \in DOMAIN gate_logs'
               /\ gate_logs'[TimerLogName(get_current_stage, timer'.check_count)]
                    = timer'.returned
               /\ RepromptName(get_current_stage, timer'.check_count) \in reprompts'
               /\ timer'.callbacks = timer.callbacks + 1
               /\ timer'.callback_saw_log
          ELSE /\ timer'.callbacks = timer.callbacks
               /\ reprompts' = reprompts]_vars

\* C19: stop() does not return while the background thread is still running:
\* once stop() has returned, the thread has ended (or was never started), so
\* no tick is executing and none can start, wherever the thread was when
\* stop() was called and however long a tick takes.
C19_StopWaitsForThread == timer.stopped => timer.thread \in {"none", "done"}

\* C20: stop() on a timer that was never started or is already stopped
\* returns at once, changes no counter and no other field and leaves active
\* false, so repeated calls end in the state one call ends in.
C20_StopIdempotent ==
  [][(TimerStop /\ ~timer.active)
       => /\ timer' = [timer EXCEPT !.stopped = TRUE]
          /\ ~timer'.active /\ ~timer'.joining
          /\ timer.stopped => UNCHANGED vars
          /\ UNCHANGED <<machine_vars, state_file, gate_logs, files, output_files,
                         retry_files, reprompts>>]_vars

C20_Witness ==
  /\ timer.stopped
  /\ timer.thread = "none"
  /\ ~timer.active /\ ~timer.stop_event
  /\ timer.check_count = 0 /\ timer.fail_count = 0

\* C21: ticks are serialized: at no time are two executions of check()
\* running, also when a compaction event or a manual check calls check()
\* while a periodic tick is in progress.
C21_TicksSerialized == ~(timer.thread = "checking" /\ timer.manual = "checking")

\* C22: a tick that reads state/current.json while the controller saves it
\* never observes a torn write: whenever the file exists, the tick reads
\* the stage of a complete document from it.
C22_NoTornRead ==
  [][TimerCheck /\ state_file # <<>> => get_current_stage \in Stage]_vars

\* C23: an exception raised inside a background tick, by the evaluation, by
\* file I/O or by the failure callback, does not end the loop: the thread
\* has ended only when stop() was called.
C23_LoopSurvivesExceptions == timer.thread = "done" => timer.stop_event

\* C24: reset() re-bases the time to the next tick: while the thread waits,
\* the next tick is a full interval after the reset, and the remaining time
\* status() reports is the time to that tick.
C24_ResetRebasesTick ==
  [][TimerReset /\ timer.thread = "waiting" /\ ~timer.stop_event
       => /\ timer'.wake_at = timer'.now + Interval
          /\ next_check_in_seconds(timer') = timer'.wake_at - timer'.now]_vars

\* C25: create_todo and create_evidence validate the record they built
\* before they append it: a call that raises leaves the todo list, the
\* evidence list and the persisted document as they were, and every
\* record in the two lists is valid under its schema.
C25_CreateValidatesFirst ==
  [][/\ last'.op \in {"create_todo", "create_evidence"} /\ last'.raised
          => UNCHANGED <<todos, evidence, state_file>>
     /\ \A i \in 1..Len(todos') : validate_schema(todos'[i], "todo").valid
     /\ \A i \in 1..Len(evidence') :
          validate_schema(evidence'[i], "evidence").valid]_vars

C25_Witness ==
  /\ last.op = "create_todo" /\ last.raised
  /\ Len(evidence) > 0

\* C26: a transition request rejected for stage order returns False and
\* raises nothing, and leaves the whole state as it was: no gate is
\* evaluated, no retry counter changes, no hook is called, the history and
\* the persisted document are untouched.
C26_OrderRejectionChangesNothing ==
  [][\A to_stage \in Stage :
       Transition(to_stage) /\ OrderRejects(current_stage, to_stage)
         => /\ ~last'.ok /\ ~last'.raised
            /\ last'.gate = NoGate
            /\ last'.hooks = <<>>
            /\ UNCHANGED <<machine_vars, state_file, gate_logs, files>>]_vars

C26_Witness ==
  /\ last.op = "transition" /\ ~last.ok /\ last.gate = NoGate
  /\ current_stage \notin {STARTUP, PLAN}
  /\ \E s \in DOMAIN retry_counts : retry_counts[s] > 0

\* C29: the steps of a successful transition happen in this order: the
\* source stage is appended to the history, on_stage_exit(from, to) is
\* called while the current stage is still the source, the current stage
\* is set, on_stage_enter(target) is called, the state is saved; each
\* notification is made once.
C29_TransitionStepOrder ==
  [][\A to_stage \in Stage :
       Transition(to_stage) /\ last'.ok
         => /\ Len(last'.hooks) = 2
            /\ last'.hooks[1].event = "on_stage_exit"
            /\ last'.hooks[1].args = <<current_stage, to_stage>>
            /\ last'.hooks[1].completed_stages = completed_stages'
            /\ last'.hooks[1].current_stage = current_stage
            /\ last'.hooks[2].event = "on_stage_enter"
            /\ last'.hooks[2].args = <<to_stage>>
            /\ last'.hooks[2].completed_stages = completed_stages'
            /\ last'.hooks[2].current_stage = to_stage
            /\ ~last'.hooks[1].persisted /\ ~last'.hooks[2].persisted]_vars

\* C27: a read failure on the state document during load (a missing
\* field, an unknown stage name, an unparsable document) reaches the
\* caller as an error and leaves the machine as it was before the load.
C27_LoadFailurePropagates ==
  [][LoadState /\ state_file # <<>> /\ ~Whole(state_file[1])
       => /\ last'.raised
          /\ last'.machine = NewMachine(GENERATED_ID)]_vars

\* C28: a run-single-check entry point returns exit code 0 if and only if
\* the check produced a result whose action is PROCEED.
C28_ExitCodeZeroIffProceed ==
  [][ManualCheckEnd
       => (main_exit_code(timer') = 0
             <=> timer'.returned # NoGate /\ timer'.returned.action = PROCEED)]_vars

\* C30: the checked collection of every GateResult holds each schema name
\* at most once, however many outputs are detected as that schema.
C30_CheckedDeduplicated ==
  \A g \in {last.gate, timer.last_result} \cup {gate_logs[n] : n \in DOMAIN gate_logs} :
    \A i, j \in 1..Len(g.checked) : g.checked[i] = g.checked[j] => i = j

\* C31: once the evaluation of a stage yields ESCALATE its retry counter is
\* not incremented further: no retry counter, of the controller or of the
\* scheduler, ever exceeds MAX_RETRY.
C31_RetryNeverExceedsMax ==
  /\ \A s \in DOMAIN retry_counts : retry_counts[s] <= MAX_RETRY
  /\ \A n \in DOMAIN retry_files : retry_files[n] <= MAX_RETRY

\* C32: the scheduler performs the same check as the controller's
\* evaluator: for the same stage, the same outputs and the same retry count
\* both return the same validity, the same errors and the same action.
C32_SchedulerSameCheck ==
  (/\ last.op = "quality_gate" /\ ~last.raised
   /\ timer.check_count > 0 /\ ~timer.raised /\ timer.returned # NoGate)
    => /\ timer.returned.valid = last.gate.valid
       /\ timer.returned.errors = last.gate.errors
       /\ timer.returned.action = last.gate.action

\* C33: the scheduler keeps its own retry counter per stage: a tick whose
\* result is not PROCEED raises the counter of that stage by one, any other
\* tick leaves the counters as they are, no tick changes the controller's
\* retry_counts and no transition changes the scheduler's counters.
C33_SchedulerOwnRetryCounter ==
  [][/\ TimerCheck =>
          /\ UNCHANGED retry_counts
          /\ IF timer'.returned # NoGate /\ timer'.returned.action # PROCEED
             THEN retry_files' =
                    MapSet(retry_files, RetryFileName(get_current_stage),
                           get_retry_count(get_current_stage) + 1)
             ELSE UNCHANGED retry_files
     /\ (\E to_stage \in Stage : Transition(to_stage)) => UNCHANGED retry_files]_vars

\* C34: for each stage name the evidence records create_evidence made carry
\* the sequence numbers 001, 002, ... in creation order, counted per stage,
\* and no two evidence records share an id.
EvidenceIdAt(i) == evidence[i].d["evidence"].d["id"].s

EvidenceOfStage(st, n) ==
  {j \in 1..n : \E k \in 1..MaxEvidenceSeq + 1 :
                  EvidenceIdAt(j) = EvidenceId(st, workflow_id, k)}

C34_EvidenceSequencePerStage ==
  /\ \A i \in 1..Len(evidence) :
       \E st \in EvidenceStageArgs :
         EvidenceIdAt(i) =
           EvidenceId(st, workflow_id, Cardinality(EvidenceOfStage(st, i)))
  /\ \A i, j \in 1..Len(evidence) : EvidenceIdAt(i) = EvidenceIdAt(j) => i = j

C34_Witness ==
  /\ Len(evidence) = 3
  /\ EvidenceIdAt(1) = EvidenceId("PLAN", workflow_id, 1)
  /\ EvidenceIdAt(2) = EvidenceId("REVIEW", workflow_id, 1)
  /\ EvidenceIdAt(3) = EvidenceId("PLAN", workflow_id, 2)

\* C35: FAILED is reachable from any state: from every stage that is not
\* terminal, whatever outputs are recorded and whatever the retry count, a
\* transition request for FAILED moves the workflow to FAILED.
C35_FailedAlwaysReachable ==
  [][Transition(FAILED) /\ current_stage \notin {COMPLETE, FAILED}
       => current_stage' = FAILED /\ last'.ok]_vars

\* C36: the position of the current stage in the fixed order never
\* decreases: no operation returns the workflow to an earlier stage or out
\* of a terminal stage, and startup() moves the stage only from STARTUP to
\* PLAN.
C36_StageNeverMovesBack ==
  [][/\ NonTerminal(current_stage) /\ NonTerminal(current_stage')
          => Position(current_stage') >= Position(current_stage)
     /\ ~NonTerminal(current_stage) => ~NonTerminal(current_stage')
     /\ Startup /\ current_stage' # current_stage
          => current_stage = STARTUP /\ current_stage' = PLAN]_vars

\* C37: in every reachable state the completed-stage history holds no
\* stage twice, holds neither FAILED nor COMPLETE, does not hold the
\* current stage, and lists its stages in the fixed order.
C37_HistoryWellFormed ==
  /\ \A i, j \in 1..Len(completed_stages) :
       completed_stages[i] = completed_stages[j] => i = j
  /\ \A i \in 1..Len(completed_stages) :
       /\ NonTerminal(completed_stages[i])
       /\ completed_stages[i] # current_stage
  /\ \A i, j \in 1..Len(completed_stages) :
       i < j => Position(completed_stages[i]) < Position(completed_stages[j])

\* C38: at most one timer loop runs per scheduler at any time, also after
\* start() follows a stop() whose join timed out, and a scheduler that is
\* not active has no timer loop running once stop() has returned.
LoopsRunning ==
  Cardinality({p \in {"thread", "replaced"} :
                 /\ p = "thread" => timer.thread \in {"waiting", "checking"}
                 /\ p = "replaced" => timer.replaced \in {"waiting", "checking"}})

C38_OneTimerLoop ==
  /\ LoopsRunning <= 1
  /\ ~timer.active /\ ~timer.joining => LoopsRunning = 0

\* C39: a tick that finds no state document, or reads a current stage of
\* STARTUP, COMPLETE or FAILED, performs no evaluation: it writes no gate
\* log and no reprompt, does not call the failure callback, changes no
\* retry counter and no fail counter; only the check counter advances.
C39_UngatedTickDoesNothing ==
  [][TimerCheck /\ get_current_stage \in {NoStage, STARTUP, COMPLETE, FAILED}
       => /\ timer' = [timer EXCEPT !.check_count = @ + 1, !.thread = "waiting",
                                    !.returned = NoGate, !.raised = FALSE,
                                    !.wake_at = timer.now + Interval]
          /\ UNCHANGED <<gate_logs, reprompts, retry_files, retry_counts,
                         machine_vars, state_file>>]_vars

C39_Witness ==
  /\ timer.check_count >= 2
  /\ timer.returned = NoGate /\ ~timer.raised
  /\ timer.thread = "waiting"
  /\ get_current_stage \in {COMPLETE, FAILED}

\* C40: when the outputs recorded for every stage satisfy its gate and the
\* caller keeps asking for the next stage of the order, and for COMPLETE
\* from LEARN, every request succeeds on its first attempt, no retry
\* counter is ever set, and the workflow reaches COMPLETE after the nine
\* transitions of the order.
C40_Progress ==
  /\ [][RequestSuccessor
          => /\ last'.ok /\ ~last'.raised
             /\ current_stage' = NextMember(current_stage)
             /\ retry_counts' = EmptyMap]_vars
  /\ [](retry_counts = EmptyMap)
  /\ <>(/\ current_stage = COMPLETE
        /\ Len(completed_stages) = Len(stage_order)
        /\ retry_counts = EmptyMap)

C40_Witness ==
  /\ current_stage = COMPLETE
  /\ last.op = "transition" /\ last.ok
  /\ completed_stages = stage_order
  /\ retry_counts = EmptyMap

====
